---- MODULE Spec2Model ----
(***************************************************************************)
(* TaskLens model orchestration engine: the retrying invoker               *)
(* (_make_api_call_with_retry), the tool-call loop driver                  *)
(* (generate_wiring_plan_combined / generate_wiring_plan) and the pipeline *)
(* coordinators (orchestrate_full_pipeline) of the three service files.    *)
(***************************************************************************)
EXTENDS Integers, Sequences, FiniteSets, TLC

VARIABLES
    image_base64,  \* the image string handed to the run (or to the normalizer)
    normalized,    \* what the normalizer made of a string handed to it alone
    final_text,    \* the final answer handed to the extraction alone
    runs,          \* the frames of the pipeline runs in flight on one service instance
    requests,      \* RateLimiter.requests: the timestamps kept for each client address
    now,           \* the reading of time.time(), in seconds
    traffic,       \* what RequestMiddleware.dispatch has answered so far
    context_description,  \* local of orchestrate_full_pipeline: what stage 1 returned
    planning_input,       \* the description stage 2 was called with, and the one in its prompts
    clients,       \* httpx.AsyncClient objects the run has acquired
    released,      \* how many of them have been closed again
    max_retries,   \* settings.max_retries, fixed at construction
    serper_key,    \* TRUE iff settings.serper_api_key is a non-empty string
    mode,          \* which orchestrate_full_pipeline runs (or the bare invoker)
    pc,            \* position of the pipeline run
    messages,      \* the conversation (local `messages` of the tool loop)
    iteration,     \* local `iteration` of the tool loop
    pending,       \* tool calls of the current reply not yet dispatched
    inv_pc,        \* position inside _make_api_call_with_retry
    inv_site,      \* the call site that invoked it
    attempt,       \* local `attempt` of the retry loop
    calls,         \* client.post calls made by the current invocation
    delays,        \* asyncio.sleep delays of the current invocation, in order
    fails,         \* failure classes the endpoint gave a bare invoker call, in order
    inv_value,     \* value returned by the invocation (a response body or None)
    inv_error,     \* exception raised by the invocation
    invocations,   \* payloads handed to the invoker by the run, in order
    posts,         \* (site, via) of every client.post made by the run
    dispatches,    \* tool-call requests processed by the for loop
    searches,      \* outbound calls to the search API
    varied,        \* deviating replies the remote side has produced in this run
    error,         \* exception that left the run
    result         \* value returned by the run

vars == <<image_base64, normalized, final_text, runs, requests, now, traffic,
          context_description, planning_input, clients, released, max_retries, serper_key, mode, pc, messages, iteration, pending,
          inv_pc, inv_site, attempt, calls, delays, fails, inv_value,
          inv_error, invocations, posts, dispatches, searches, varied,
          error, result>>

invVars == <<inv_pc, inv_site, attempt, calls, delays, fails, inv_value, inv_error>>
runVars == <<pc, messages, iteration, pending, invocations, dispatches,
             searches, varied, error, result>>
fixedVars == <<max_retries, serper_key, mode, image_base64, normalized, final_text, runs,
              requests, now, traffic>>
cfgVars == <<fixedVars, context_description, planning_input>>

----------------------------------------------------------------------------
(* Bounds of the model *)

MaxRetriesCap == 4          \* the invoker alone: max_retries in 0..MaxRetriesCap
MaxVaried == 1              \* replies of one run that deviate from the plain reply
MaxToolCallsPerReply == 2   \* tool-call requests in one assistant reply
MaxImagePieces == 3         \* pieces in the payload of an image string
MaxSteps == 2               \* steps in a final answer handed to the extraction
MaxPlainSteps == 5          \* steps in the planning reply of the two-stage plain run
MaxPlanItems == 1           \* plan_steps of a task plan handed to TaskPlan
MaxRateCalls == 3           \* requests handed to RequestMiddleware.dispatch
MaxTicks == 2               \* readings of the clock that differ from the one before

(* Program constants *)

base_delay == 1             \* openai_service.py:127
default_max_retries == 3    \* config.py:30
max_iterations == 10        \* openai_service.py:538
plan_length == 6            \* schemas.py:122, "minItems" and "maxItems"
max_common_errors == 3      \* schemas.py:73, max_length of common_errors
requests_per_minute == 30   \* main.py:80, RateLimiter(requests_per_minute=30)
window_seconds == 60        \* main.py:57, minute_ago = now - 60
HTTP_429_TOO_MANY_REQUESTS == 429   \* main.py:93
HTTP_413_REQUEST_ENTITY_TOO_LARGE == 413   \* main.py:104

----------------------------------------------------------------------------
(* Values *)

IsPrefix(s, t) == Len(s) <= Len(t) /\ SubSeq(t, 1, Len(s)) = s

\* The keys of RateLimiter.requests: a client address, or "unknown" for a
\* request without one.  A defaultdict(list) reads [] for a key never written.
ClientIps == {"10.0.0.1", "unknown"}
NoRequests == [ip \in ClientIps |-> << >>]
NoAnswer == [ip |-> "", path |-> << >>, status |-> 0, call_next |-> FALSE]

\* A description is a sequence of pieces of text; the empty string is << >>.
NoDescription == << >>
NoPlanningInput == [called |-> FALSE, given |-> << >>, in_prompt |-> << >>]
NoTraffic == [admitted |-> NoRequests, last |-> NoAnswer, calls |-> 0, ticks |-> 0]

NoError == [type |-> "none", status |-> 0, text |-> "", wrapped |-> FALSE]
HTTPStatusError(code) ==
    [type |-> "HTTPStatusError", status |-> code, text |-> "status", wrapped |-> FALSE]
TimeoutException ==
    [type |-> "TimeoutException", status |-> 0, text |-> "timeout", wrapped |-> FALSE]
ConnectError ==
    [type |-> "ConnectError", status |-> 0, text |-> "connect", wrapped |-> FALSE]
ValueError(txt) ==
    [type |-> "ValueError", status |-> 0, text |-> txt, wrapped |-> FALSE]

\* except Exception as e: raise ValueError(f"Failed to generate valid wiring plan: {str(e)}")
WrapValueError(e) ==
    [type |-> "ValueError", status |-> 0, text |-> e.text, wrapped |-> TRUE]

\* httpx.HTTPStatusError, TimeoutException and ConnectError derive from httpx.HTTPError
IsHTTPError(e) == e.type \in {"HTTPStatusError", "TimeoutException", "ConnectError"}

\* Outcomes of one client.post(...) followed by raise_for_status()
Statuses == {200, 400, 500}
Outcomes ==
    {[kind |-> "status", code |-> c] : c \in Statuses}
        \cup {[kind |-> "timeout", code |-> 0], [kind |-> "connect", code |-> 0]}

NoTurn == [role |-> "none", content |-> "", tool_calls |-> << >>, tool_call_id |-> 0]

\* What the invoker hands back: response.json() of a 2xx response, or None.
\* The JSON document itself is read where the caller takes it apart.
\* No final answer is at hand.
NoText == [json |-> "none", steps |-> << >>]

ResponseJson == "response_json"
NoneValue == "None"

----------------------------------------------------------------------------
(* Retrying invoker: OpenAIService._make_api_call_with_retry *)

\* (variant: the lower limit is left out of the 4xx range)
IsClientErrorAbove400(code) == 400 < code /\ code < 500

\* if 400 <= e.response.status_code < 500
IsClientError(code) == 400 <= code /\ code < 500

\* (variant: the delay does not grow with the attempt)
BackoffDelayFlat(a) == base_delay

\* delay = base_delay * (2 ** attempt)
BackoffDelay(a) == base_delay * (2 ^ a)

\* (variant: the last attempt sleeps too instead of raising)
MayRetryOnLast(a) == a < max_retries

\* if attempt < max_retries - 1
MayRetry(a) == a < max_retries - 1

\* response.raise_for_status() passes for a 2xx status only
IsSuccess(o) == o.kind = "status" /\ o.code >= 200 /\ o.code < 300

FailureClass(o) ==
    CASE o.kind = "timeout" -> "timeout"
      [] o.kind = "connect" -> "transport"
      [] o.kind = "status" /\ o.code >= 400 /\ o.code < 500 -> "client"
      [] o.kind = "status" /\ o.code >= 500 /\ o.code < 600 -> "server"
      [] OTHER -> "other"

ExceptionOf(o) ==
    CASE o.kind = "timeout" -> TimeoutException
      [] o.kind = "connect" -> ConnectError
      [] OTHER -> HTTPStatusError(o.code)

\* (variant: a connection error is retried like a timeout)
AttemptResultRetriesTransport(o, a) ==
    CASE IsSuccess(o) -> "return"
      [] ~IsSuccess(o) /\ o.kind = "status" /\ IsClientError(o.code) -> "raise"
      [] OTHER -> IF MayRetry(a) THEN "sleep" ELSE "raise"

\* One pass of the body of `for attempt in range(max_retries)` for outcome o:
\* return the body, re-raise, or sleep and go round again.
AttemptResult(o, a) ==
    CASE IsSuccess(o) -> "return"
      [] ~IsSuccess(o) /\ o.kind = "status" /\ IsClientError(o.code) -> "raise"
      [] ~IsSuccess(o) /\ o.kind = "status" /\ ~IsClientError(o.code) ->
            IF MayRetry(a) THEN "sleep" ELSE "raise"
      [] o.kind = "timeout" -> IF MayRetry(a) THEN "sleep" ELSE "raise"
      [] OTHER -> "raise"

----------------------------------------------------------------------------
(* Conversation turns and response bodies *)

Turn(r, c) == [role |-> r, content |-> c, tool_calls |-> << >>, tool_call_id |-> 0]

\* (variant: the user turn of the combined mode carries the text alone)
InitialConversationTextOnly(m) ==
    << Turn("system", "system_prompt"), Turn("user", "user_prompt") >>

\* messages = [{"role": "system", ...}, {"role": "user", ...}]
InitialConversation(m) ==
    << Turn("system", "system_prompt"),
       Turn("user", IF m = "combined" THEN "user_prompt_with_image" ELSE "user_prompt") >>

\* {"role": "user", "content": "Now format your complete plan as JSON ..."}
InstructionTurn == Turn("user", "format_instruction")

\* {"role": "tool", "tool_call_id": tool_call_id, "content": ...}
ToolResultTurn(id, c) ==
    [role |-> "tool", content |-> c, tool_calls |-> << >>, tool_call_id |-> id]

\* A tool-call request {id, function: {name, arguments}}; `arguments` is JSON
\* text: of an object, of a value that is no object, or no JSON at all.
RequestKinds ==
    [name : {"web_search_tool", "other_tool"}, arguments : {"obj", "nonobj", "bad"}]

Request(i, k) == [id |-> i, name |-> k.name, arguments |-> k.arguments]

\* The plain reply is a message with no tool call, or with one call of
\* web_search_tool for an object whose search succeeds.  Every way a reply
\* differs from it without ending the run counts once against MaxVaried.
KindCost(k) ==
    IF k.name = "other_tool" /\ k.arguments # "bad" THEN 1 ELSE 0

RECURSIVE SumCost(_)
SumCost(ks) == IF ks = << >> THEN 0 ELSE KindCost(Head(ks)) + SumCost(Tail(ks))

ReplyCost(ks) == SumCost(ks) + (IF Len(ks) > 1 THEN Len(ks) - 1 ELSE 0)

RequestsCost(tcs) ==
    ReplyCost([j \in 1..Len(tcs) |->
                  [name |-> tcs[j].name, arguments |-> tcs[j].arguments]])

ReplyKinds == UNION {[1..n -> RequestKinds] : n \in 0..MaxToolCallsPerReply}

\* The replies the remote side may still give with `budget` deviations left.
ReplyKindsWithin == [b \in 0..MaxVaried |-> {k \in ReplyKinds : ReplyCost(k) <= b}]

RECURSIVE CountRequestsUpTo(_, _)
CountRequestsUpTo(msgs, n) ==
    IF n = 0 THEN 0 ELSE Len(msgs[n].tool_calls) + CountRequestsUpTo(msgs, n - 1)

CountRequests(msgs) == CountRequestsUpTo(msgs, Len(msgs))

\* The remote side numbers its tool-call requests: ids are fresh.
AssistantMessage(ks, msgs) ==
    LET asked == IF ks = << >> THEN 0 ELSE CountRequests(msgs)
    IN [role |-> "assistant",
        content |-> IF ks = << >> THEN "answer" ELSE "",
        tool_calls |-> [j \in 1..Len(ks) |-> Request(asked + j, ks[j])],
        tool_call_id |-> 0]

\* Bodies of a 2xx reply to a tools-enabled call: a message, no "choices" or
\* "message" key at all, or an empty "choices" list.
ActiveBodies(msgs, budget) ==
    {[shape |-> "message", message |-> AssistantMessage(ks, msgs), content |-> ""] :
        ks \in ReplyKindsWithin[budget]}
      \cup {[shape |-> "empty_choices", message |-> NoTurn, content |-> ""]}
      \cup (IF budget > 0
               THEN {[shape |-> "no_message", message |-> NoTurn, content |-> ""]}
               ELSE {})

BodyCost(body) ==
    IF body.shape = "no_message" THEN 1 ELSE RequestsCost(body.message.tool_calls)

\* Bodies of a 2xx reply to a strict-schema call, by the text in message.content.
FinalContents == {"plan", "plan_bad_step", "no_steps_key", "bad_json"}
FinalBodies ==
    {[shape |-> "message", message |-> NoTurn, content |-> c] : c \in FinalContents}
      \cup {[shape |-> "no_message", message |-> NoTurn, content |-> ""],
            [shape |-> "empty_choices", message |-> NoTurn, content |-> ""]}

----------------------------------------------------------------------------
(* Tool-call loop driver: generate_wiring_plan_combined (openai_service.py)  *)
(* and generate_wiring_plan (nemotron.py), which share the loop line by line *)

\* (variant: the while test stops one round short)
LoopContinuesEarly(it) == it < max_iterations - 1

\* (variant: the while test lets one more round through)
LoopContinuesInclusive(it) == it <= max_iterations

\* while iteration < max_iterations
LoopContinues(it) == it < max_iterations

\* payload = {"model", "messages", "temperature", "max_tokens", "tools", "tool_choice"}
PayloadActive(msgs) ==
    [site |-> "active", tools |-> TRUE, response_format |-> FALSE, nmsgs |-> Len(msgs)]

\* (variant: the final payload keeps the tool catalog)
PayloadFinalWithTools(msgs) ==
    [site |-> "final", tools |-> TRUE, response_format |-> TRUE, nmsgs |-> Len(msgs)]

\* final_payload = {"model", "messages", "temperature", "max_tokens", "response_format"}
PayloadFinal(msgs) ==
    [site |-> "final", tools |-> FALSE, response_format |-> TRUE, nmsgs |-> Len(msgs)]

\* (variant: the conversation is kept to a window of its last turns)
AppendTurnWindow(msgs, t) == Append(IF Len(msgs) > 3 THEN Tail(msgs) ELSE msgs, t)

\* messages.append(turn)
AppendTurn(msgs, t) == Append(msgs, t)

\* (variant: only the first tool call of a reply is handled)
OnlyFirstToolCall(p) == << >>

\* for tool_call in tool_calls: what is left after the current one
RestOfToolCalls(p) == Tail(p)

\* assistant_message = result.get("choices", [{}])[0].get("message", {})
ReplyMessage(body) ==
    IF body.shape = "message" THEN body.message ELSE NoTurn

\* if not tool_calls
NoToolCalls(msg) == msg.tool_calls = << >>

\* content = final_result.get("choices", [{}])[0].get("message", {}).get("content", "{}")
FinalContent(body) ==
    IF body.shape = "message" THEN body.content ELSE "no_steps_key"

\* json.loads(content); response_obj.get("steps", []); [WiringStep(**step) ...]
ExtractError(content) ==
    CASE content = "bad_json" -> ValueError("json_decode_error")
      [] content = "plan_bad_step" -> ValueError("validation_error")
      [] OTHER -> NoError

\* return [step.model_dump() for step in validated_steps]
ExtractSteps(content) ==
    IF content = "plan" THEN << "step" >> ELSE << >>

\* A run ends by an exception: `except httpx.HTTPError: raise`, and
\* `except Exception as e: raise ValueError(...)`.
SurfacedError(e) == IF IsHTTPError(e) THEN e ELSE WrapValueError(e)

\* (variant: a client is closed only when its block is left by a return)
ScopeExitOnReturn(r, raised) == IF raised THEN r ELSE r + 1

\* `async with httpx.AsyncClient(...) as client`: leaving the block, by a
\* return or by an exception, closes the client.
ScopeExit(r, raised) == r + 1

\* (variant: the exception is noted and the loop is entered again)
FailAndGoOn(e) ==
    /\ pc' = "loop"
    /\ error' = SurfacedError(e)
    /\ UNCHANGED pending

\* `pending` stays as the for loop left it: its head is the request at which
\* the exception arose.
Fail(e) ==
    /\ pc' = "failed"
    /\ error' = SurfacedError(e)
    /\ UNCHANGED pending

\* (variant: the attempt counter is carried over from the previous call)
InvokeKeepsAttempt(site) ==
    /\ inv_pc' = "try"
    /\ inv_site' = site
    /\ attempt' = attempt
    /\ calls' = 0
    /\ delays' = << >>
    /\ fails' = << >>
    /\ inv_value' = NoneValue
    /\ inv_error' = NoError

\* A caller hands a payload to _make_api_call_with_retry: fresh locals.
Invoke(site) ==
    /\ inv_pc' = "try"
    /\ inv_site' = site
    /\ attempt' = 0
    /\ calls' = 0
    /\ delays' = << >>
    /\ fails' = << >>
    /\ inv_value' = NoneValue
    /\ inv_error' = NoError

\* The caller has taken the value or the exception: the invoker's frame is gone.
InvokerIdle ==
    /\ inv_pc' = "idle"
    /\ inv_site' = "none"
    /\ attempt' = 0
    /\ calls' = 0
    /\ delays' = << >>
    /\ fails' = << >>
    /\ inv_value' = NoneValue
    /\ inv_error' = NoError

\* The tools-enabled call returned v: append the reply; without tool calls append
\* the instruction turn and issue the strict-schema call, else start the for loop.
ActiveReturned(v) ==
    /\ IF v = NoneValue
         THEN \* None.get(...): AttributeError
              /\ Fail(ValueError("attribute_error"))
              /\ InvokerIdle
              /\ released' = ScopeExit(released, TRUE)
              /\ UNCHANGED <<messages, invocations, varied>>
         ELSE \E body \in ActiveBodies(messages, MaxVaried - varied) :
              IF body.shape = "empty_choices"
              THEN \* [][0]: IndexError
                   /\ Fail(ValueError("index_error"))
                   /\ InvokerIdle
                   /\ released' = ScopeExit(released, TRUE)
                   /\ UNCHANGED <<messages, invocations, varied>>
              ELSE LET msg == ReplyMessage(body)
                       appended == AppendTurn(messages, msg)
                   IN IF NoToolCalls(msg)
                        THEN /\ messages' = AppendTurn(appended, InstructionTurn)
                             /\ invocations' =
                                   Append(invocations,
                                          PayloadFinal(AppendTurn(appended, InstructionTurn)))
                             /\ Invoke("final")
                             /\ pc' = "final_call"
                             /\ varied' = varied + BodyCost(body)
                             /\ UNCHANGED <<pending, error, released>>
                        ELSE /\ messages' = appended
                             /\ pending' = msg.tool_calls
                             /\ varied' = varied + BodyCost(body)
                             /\ InvokerIdle
                             /\ pc' = "dispatch"
                             /\ UNCHANGED <<invocations, error, released>>
    /\ UNCHANGED <<iteration, dispatches, searches, result>>

\* The strict-schema call returned v: parse, unwrap "steps", validate, return.
FinalReturned(v) ==
    /\ IF v = NoneValue
         THEN /\ Fail(ValueError("attribute_error"))
              /\ released' = ScopeExit(released, TRUE)
              /\ UNCHANGED result
         ELSE \E body \in FinalBodies :
              LET content == FinalContent(body) IN
              IF body.shape = "empty_choices"
                THEN /\ Fail(ValueError("index_error"))
                     /\ released' = ScopeExit(released, TRUE)
                     /\ UNCHANGED result
                ELSE IF ExtractError(content) # NoError
                THEN /\ Fail(ExtractError(content))
                     /\ released' = ScopeExit(released, TRUE)
                     /\ UNCHANGED result
                ELSE /\ result' = ExtractSteps(content)
                     /\ pc' = "done"
                     /\ released' = ScopeExit(released, FALSE)
                     /\ UNCHANGED <<pending, error>>
    /\ InvokerIdle
    /\ UNCHANGED <<messages, iteration, invocations, dispatches, searches, varied>>

\* The invoker raised e inside the try block of the loop.
LoopCallRaised(e) ==
    /\ Fail(e)
    /\ InvokerIdle
    /\ released' = ScopeExit(released, TRUE)
    /\ UNCHANGED <<messages, iteration, invocations, dispatches, searches, varied, result>>

----------------------------------------------------------------------------
(* Image normalizer: the cleaning block of identify_component and of         *)
(* generate_wiring_plan_combined.  A string is a sequence of one-character   *)
(* strings.                                                                  *)

RECURSIVE Flatten(_)
Flatten(ps) == IF ps = << >> THEN << >> ELSE Head(ps) \o Flatten(Tail(ps))

\* 'data:image'
DataImage == << "d", "a", "t", "a", ":", "i", "m", "a", "g", "e" >>

\* 'data:image/jpeg;base64,' and 'data:image/png;base64,'
PrefixJpeg == DataImage \o << "/", "j", "p", "e", "g", ";", "b", "a", "s", "e", "6", "4", "," >>
PrefixPng == DataImage \o << "/", "p", "n", "g", ";", "b", "a", "s", "e", "6", "4", "," >>

\* The input strings: with or without a data-URL prefix (one of them without
\* its comma), then a payload put together from a few pieces.
ImagePrefixes == { << >>, PrefixJpeg, PrefixPng, DataImage }

PayloadPieces ==
    { << "J", "P", "E", "g" >>, << "A", "A" >>, << "=" >>,
      << " " >>, << "\n" >>, << "\r" >>, << "\t" >>, << "!" >> }

ImageInputs ==
    { p \o Flatten(ps) :
        p \in ImagePrefixes,
        ps \in UNION {[1..n -> PayloadPieces] : n \in 0..MaxImagePieces} }

\* The characters base64.b64decode reads as data.
Base64Alphabet ==
    { "A", "B", "C", "D", "E", "F", "G", "H", "I", "J", "K", "L", "M",
      "N", "O", "P", "Q", "R", "S", "T", "U", "V", "W", "X", "Y", "Z",
      "a", "b", "c", "d", "e", "f", "g", "h", "i", "j", "k", "l", "m",
      "n", "o", "p", "q", "r", "s", "t", "u", "v", "w", "x", "y", "z",
      "0", "1", "2", "3", "4", "5", "6", "7", "8", "9", "+", "/" }

\* str.lower() on the upper-case letters the inputs are made of
LowerChar(c) ==
    CASE c = "J" -> "j" [] c = "P" -> "p" [] c = "E" -> "e" [] c = "A" -> "a"
      [] OTHER -> c

Lower(s) == [i \in 1..Len(s) |-> LowerChar(s[i])]

\* s.startswith(p)
StartsWith(s, p) == Len(s) >= Len(p) /\ SubSeq(s, 1, Len(p)) = p

\* p in s
Contains(s, p) ==
    \E i \in 1..(Len(s) - Len(p) + 1) : SubSeq(s, i, i + Len(p) - 1) = p

\* Positions of ',' in s
Commas(s) == {i \in 1..Len(s) : s[i] = ","}

Min(S) == CHOOSE x \in S : \A y \in S : x <= y

\* s.split(',')[1]: what stands between the first comma and the next one
SplitSecond(s) ==
    LET first == Min(Commas(s))
        later == {i \in Commas(s) : i > first}
        stop == IF later = {} THEN Len(s) + 1 ELSE Min(later)
    IN SubSeq(s, first + 1, stop - 1)

\* The four characters the cleaning removes.
StrippedChars == { "\n", "\r", " ", "\t" }

\* .replace('\n', '').replace('\r', '').replace(' ', '').replace('\t', '')
StripWhitespace(s) == SelectSeq(s, LAMBDA c : c \notin StrippedChars)

\* base64.b64decode(s) without validation: characters outside the alphabet are
\* skipped, a finished run of padding ends the reading, and data that stops
\* inside a group of four is an error.  The value is the number of decoded
\* bytes, or -1 for binascii.Error.
RECURSIVE B64Scan(_, _, _, _, _)
B64Scan(s, i, quad, pads, n) ==
    IF i > Len(s)
      THEN IF quad # 0 THEN -1 ELSE n
      ELSE IF s[i] = "="
        THEN IF quad >= 2 /\ quad + pads + 1 >= 4
               THEN n + (quad - 1)
               ELSE B64Scan(s, i + 1, quad, IF quad >= 2 THEN pads + 1 ELSE pads, n)
        ELSE IF s[i] \notin Base64Alphabet
          THEN B64Scan(s, i + 1, quad, pads, n)
          ELSE B64Scan(s, i + 1, (quad + 1) % 4, 0, IF quad = 3 THEN n + 3 ELSE n)

B64Decode(s) == B64Scan(s, 1, 0, 0, 0)

NotNormalized == [done |-> FALSE, ok |-> FALSE, format |-> "", payload |-> << >>, nbytes |-> -1]

\* (variant: the test decode is left out)
NormalizeImageUnchecked(s) ==
    [done |-> TRUE, ok |-> TRUE, format |-> "jpeg", payload |-> s, nbytes |-> 0]

\* The cleaning block: the format, the cleaned payload, or ValueError.
NormalizeImage(s) ==
    LET prefixed == StartsWith(s, DataImage)
        fmt == IF prefixed /\ ~Contains(Lower(s), << "j", "p", "e", "g" >>)
                            /\ Contains(Lower(s), << "p", "n", "g" >>)
                 THEN "png" ELSE "jpeg"
        indexError == prefixed /\ Commas(s) = {}
        cut == IF prefixed /\ ~indexError THEN SplitSecond(s) ELSE s
        clean == StripWhitespace(cut)
        n == B64Decode(clean)
    IN IF indexError \/ n < 0
         THEN [done |-> TRUE, ok |-> FALSE, format |-> "", payload |-> << >>, nbytes |-> -1]
         ELSE [done |-> TRUE, ok |-> TRUE, format |-> fmt, payload |-> clean, nbytes |-> n]

\* raise ValueError(f"Invalid base64 image data: {str(e)}"), outside any try
InvalidImageData == ValueError("invalid_base64_image_data")

\* The normalizer applied to one input string.
Normalize ==
    /\ ~normalized.done
    /\ normalized' = NormalizeImage(image_base64)
    /\ UNCHANGED <<max_retries, serper_key, mode, image_base64, final_text, runs,
                   requests, now, traffic, context_description, planning_input>>
    /\ UNCHANGED <<invVars, runVars, posts, clients, released>>

InitNormalize ==
    /\ image_base64 \in ImageInputs
    /\ normalized = NotNormalized
    /\ final_text = NoText
    /\ max_retries = default_max_retries
    /\ serper_key = FALSE
    /\ mode = "normalizer"
    /\ pc = "harness"
    /\ messages = << >>
    /\ iteration = 0
    /\ pending = << >>
    /\ inv_pc = "idle"
    /\ inv_site = "none"
    /\ attempt = 0
    /\ calls = 0
    /\ delays = << >>
    /\ fails = << >>
    /\ inv_value = NoneValue
    /\ inv_error = NoError
    /\ invocations = << >>
    /\ posts = {}
    /\ clients = 0
    /\ released = 0
    /\ runs = << >>
    /\ requests = NoRequests
    /\ now = 0
    /\ traffic = NoTraffic
    /\ context_description = NoDescription
    /\ planning_input = NoPlanningInput
    /\ dispatches = 0
    /\ searches = 0
    /\ varied = 0
    /\ error = NoError
    /\ result = << >>

NextNormalize == Normalize

SpecNormalize == InitNormalize /\ [][NextNormalize]_vars

----------------------------------------------------------------------------
(* Extraction of the final answer: json.loads, the "steps" field, WiringStep *)
(* for each step, model_dump.  A JSON object is a function from its keys.    *)

\* The fields of WiringStep.
StepFields ==
    { "step_id", "component", "target_label", "value_required", "target_pin",
      "unsafe_option", "feedback_text", "error_text", "diagram_url",
      "requires_photo_verification", "verification_criteria" }

\* Fields declared with Field(default=...).
StepDefaults ==
    [f \in {"diagram_url", "requires_photo_verification"} |->
        IF f = "diagram_url" THEN "" ELSE TRUE]

\* Fields declared with Field(...): required.
RequiredStepFields == StepFields \ DOMAIN StepDefaults

\* A step object of the right types with every field present.
FullStep(id) ==
    [f \in StepFields |->
        CASE f = "step_id" -> id
          [] f = "requires_photo_verification" -> FALSE
          [] f = "diagram_url" -> "url"
          [] OTHER -> "text"]

\* The object o without its key f.
Without(o, f) == [g \in (DOMAIN o) \ {f} |-> o[g]]

StepIdValues == 0..MaxSteps

\* Step objects of a final answer: full ones, and ones lacking one field.
StepInputs ==
    {FullStep(id) : id \in StepIdValues} \cup {Without(FullStep(1), f) : f \in StepFields}

\* The final answers: no JSON, an object without "steps", an object with a
\* list of step objects.
FinalTexts ==
    {[json |-> "invalid", steps |-> << >>], [json |-> "object_without_steps", steps |-> << >>]}
      \cup {[json |-> "object", steps |-> ss] :
              ss \in UNION {[1..n -> StepInputs] : n \in 0..MaxSteps}}

\* The required fields a step object lacks.
MissingFields(o) == RequiredStepFields \ DOMAIN o

\* pydantic.ValidationError; its text names the missing field.
ValidationError(f) == [type |-> "ValidationError", status |-> 0, text |-> f, wrapped |-> FALSE]

\* json.JSONDecodeError
JSONDecodeError == [type |-> "JSONDecodeError", status |-> 0, text |-> "json_decode_error", wrapped |-> FALSE]

\* WiringStep(**step).model_dump(): defaults fill the fields left out.
ValidateStep(o) ==
    [f \in StepFields |-> IF f \in DOMAIN o THEN o[f] ELSE StepDefaults[f]]

\* (variant: the list is built back to front)
ValidatedStepsReversed(ss) == [i \in 1..Len(ss) |-> ValidateStep(ss[Len(ss) + 1 - i])]

\* [WiringStep(**step) for step in wiring_steps], then model_dump of each
ValidatedSteps(ss) == [i \in 1..Len(ss) |-> ValidateStep(ss[i])]

\* response_obj.get("steps", [])
StepsOf(text) == IF text.json = "object" THEN text.steps ELSE << >>

\* The first step object that WiringStep rejects, 0 when there is none.
FirstRejected(ss) ==
    LET bad == {i \in 1..Len(ss) : MissingFields(ss[i]) # {}}
    IN IF bad = {} THEN 0 ELSE Min(bad)

\* (variant: the steps validated before the rejected one are handed back)
ReturnedOnRejectPartial(ss, k) == ValidatedSteps(SubSeq(ss, 1, k - 1))

\* What the run hands back when step k is rejected: the exception leaves the
\* list comprehension before validated_steps is bound, nothing is returned.
ReturnedOnReject(ss, k) == << >>

\* Lines 604 to 611 applied to one final answer; an exception is wrapped by
\* the handler of line 645.
ExtractPlan ==
    /\ pc = "extract"
    /\ IF final_text.json = "invalid"
         THEN Fail(JSONDecodeError) /\ UNCHANGED result
         ELSE LET ss == StepsOf(final_text)
                  k == FirstRejected(ss)
              IN IF k # 0
                   THEN /\ Fail(ValidationError(CHOOSE f \in MissingFields(ss[k]) : TRUE))
                        /\ result' = ReturnedOnReject(ss, k)
                   ELSE /\ result' = ValidatedSteps(ss)
                        /\ pc' = "done"
                        /\ UNCHANGED <<pending, error>>
    /\ UNCHANGED <<messages, iteration, invocations, dispatches, searches, varied>>
    /\ UNCHANGED <<cfgVars, invVars, posts, clients, released>>

InitExtract ==
    /\ final_text \in FinalTexts
    /\ pc = "extract"
    /\ image_base64 = << >>
    /\ normalized = NotNormalized
    /\ max_retries = default_max_retries
    /\ serper_key = FALSE
    /\ mode = "extraction"
    /\ messages = << >>
    /\ iteration = 0
    /\ pending = << >>
    /\ inv_pc = "idle"
    /\ inv_site = "none"
    /\ attempt = 0
    /\ calls = 0
    /\ delays = << >>
    /\ fails = << >>
    /\ inv_value = NoneValue
    /\ inv_error = NoError
    /\ invocations = << >>
    /\ posts = {}
    /\ clients = 0
    /\ released = 0
    /\ runs = << >>
    /\ requests = NoRequests
    /\ now = 0
    /\ traffic = NoTraffic
    /\ context_description = NoDescription
    /\ planning_input = NoPlanningInput
    /\ dispatches = 0
    /\ searches = 0
    /\ varied = 0
    /\ error = NoError
    /\ result = << >>

NextExtract == ExtractPlan

SpecExtract == InitExtract /\ [][NextExtract]_vars

----------------------------------------------------------------------------
(* Retrying invoker: the actions.  From one await to the next nothing else   *)
(* runs, so a return or a raise goes on into the caller's code in one step.  *)

\* The invoker returns v after c posts and failures f (in a bare call the
\* frame is kept for inspection).
Returns(v, c, f) ==
    \/ /\ inv_site = "harness"
       /\ inv_pc' = "returned"
       /\ inv_value' = v
       /\ calls' = c
       /\ fails' = f
       /\ UNCHANGED <<inv_site, attempt, delays, inv_error>>
       /\ UNCHANGED <<runVars, released>>
    \/ /\ inv_site = "active"
       /\ ActiveReturned(v)
    \/ /\ inv_site = "final"
       /\ FinalReturned(v)

\* The invoker raises e after c posts and failures f.
Raises(e, c, f) ==
    \/ /\ inv_site = "harness"
       /\ inv_pc' = "raised"
       /\ inv_error' = e
       /\ calls' = c
       /\ fails' = f
       /\ UNCHANGED <<inv_site, attempt, delays, inv_value>>
       /\ UNCHANGED <<runVars, released>>
    \/ /\ inv_site \in {"active", "final"}
       /\ LoopCallRaised(e)

\* One pass of the retry loop: client.post, raise_for_status, and the handlers.
InvokerAttempt ==
    /\ inv_pc = "try"
    /\ attempt < max_retries
    /\ posts' = posts \cup {[site |-> inv_site, via |-> "invoker"]}
    /\ \E o \in Outcomes :
         LET r == AttemptResult(o, attempt)
             \* the endpoint's failures are logged where the invoker is called bare
             f == IF r = "return" \/ inv_site # "harness"
                    THEN fails ELSE Append(fails, FailureClass(o))
         IN \/ /\ r = "return"
               /\ Returns(ResponseJson, calls + 1, f)
            \/ /\ r = "raise"
               /\ Raises(ExceptionOf(o), calls + 1, f)
            \/ /\ r = "sleep"
               /\ delays' = Append(delays, BackoffDelay(attempt))
               /\ inv_pc' = "sleep"
               /\ calls' = calls + 1
               /\ fails' = f
               /\ UNCHANGED <<inv_site, attempt, inv_value, inv_error>>
               /\ UNCHANGED <<runVars, released>>
    /\ UNCHANGED <<cfgVars, clients>>

\* asyncio.sleep(delay) is over: the for loop takes the next attempt.
InvokerWake ==
    /\ inv_pc = "sleep"
    /\ attempt' = attempt + 1
    /\ inv_pc' = "try"
    /\ UNCHANGED <<inv_site, calls, delays, fails, inv_value, inv_error, posts>>
    /\ UNCHANGED <<cfgVars, runVars, clients, released>>

\* range(max_retries) is used up without a return or a raise: the function
\* falls off its end and returns None.
InvokerFallThrough ==
    /\ inv_pc = "try"
    /\ attempt >= max_retries
    /\ Returns(NoneValue, calls, fails)
    /\ UNCHANGED <<cfgVars, posts, clients>>

\* The invoker called on its own, once.
InitInvoker ==
    /\ image_base64 = << >>
    /\ normalized = NotNormalized
    /\ final_text = NoText
    /\ clients = 0
    /\ released = 0
    /\ runs = << >>
    /\ requests = NoRequests
    /\ now = 0
    /\ traffic = NoTraffic
    /\ context_description = NoDescription
    /\ planning_input = NoPlanningInput
    /\ max_retries \in 0..MaxRetriesCap
    /\ serper_key = FALSE
    /\ mode = "invoker"
    /\ pc = "harness"
    /\ messages = << >>
    /\ iteration = 0
    /\ pending = << >>
    /\ inv_pc = "try"
    /\ inv_site = "harness"
    /\ attempt = 0
    /\ calls = 0
    /\ delays = << >>
    /\ fails = << >>
    /\ inv_value = NoneValue
    /\ inv_error = NoError
    /\ invocations = << >>
    /\ posts = {}
    /\ dispatches = 0
    /\ searches = 0
    /\ varied = 0
    /\ error = NoError
    /\ result = << >>

NextInvoker == InvokerAttempt \/ InvokerWake \/ InvokerFallThrough

SpecInvoker == InitInvoker /\ [][NextInvoker]_vars

----------------------------------------------------------------------------
(* Tool-call loop driver: the actions *)

(* The description handed from stage 1 to stage 2 *)

\* What the vision model may answer: nothing, a sentence, or a sentence that
\* ends with a line break (which counts as a deviating reply).
VisionContents(budget) ==
    {<< >>, << "description" >>}
        \cup (IF budget > 0 THEN {<< "description", "\n" >>} ELSE {})

\* context_description.replace('\n', ' ').replace('\r', ' ')
ReplaceLineBreaks(d) ==
    [i \in DOMAIN d |-> IF d[i] \in {"\n", "\r"} THEN " " ELSE d[i]]

\* str.strip(): white space is taken off both ends
RECURSIVE StripLeft(_)
StripLeft(d) ==
    IF d # << >> /\ Head(d) \in {" ", "\t", "\n", "\r"} THEN StripLeft(Tail(d)) ELSE d

RECURSIVE StripRight(_)
StripRight(d) ==
    IF d # << >> /\ d[Len(d)] \in {" ", "\t", "\n", "\r"}
      THEN StripRight(SubSeq(d, 1, Len(d) - 1)) ELSE d

\* "Sanitize all inputs": the first statement of generate_wiring_plan (nemotron.py)
SanitizeDescription(d) == StripRight(StripLeft(ReplaceLineBreaks(d)))

\* (variant: stage 2 is called with a description of its own)
Stage2CallStale(d, sanitize) ==
    [called |-> TRUE, given |-> << "description" >>, in_prompt |-> << "description" >>]

\* wiring_plan = await self.generate_wiring_plan(context_description, user_goal)
Stage2Call(d, sanitize) ==
    [called |-> TRUE, given |-> d,
     in_prompt |-> IF sanitize THEN SanitizeDescription(d) ELSE d]

\* The run enters the tool loop: the image is cleaned (combined mode), a client
\* is opened, messages = [system, user]; iteration = 0.
\* (combined mode: orchestrate_full_pipeline calls generate_wiring_plan_combined;
\*  two-stage mode: generate_wiring_plan is called with the description.)
BeginToolLoop ==
    /\ \/ mode = "combined" /\ pc = "start"
       \/ mode = "two_stage_tools" /\ pc = "identified"
    /\ IF mode = "combined" /\ ~NormalizeImage(image_base64).ok
         THEN /\ pc' = "failed"
              /\ error' = InvalidImageData
              /\ UNCHANGED <<messages, iteration, clients, planning_input>>
         ELSE /\ messages' = InitialConversation(mode)
              /\ iteration' = 0
              /\ pc' = "loop"
              /\ clients' = clients + 1
              /\ planning_input' = IF mode = "combined" THEN planning_input
                                    ELSE Stage2Call(context_description, TRUE)
              /\ UNCHANGED error
    /\ UNCHANGED <<pending, invocations, dispatches, searches, varied, result>>
    /\ UNCHANGED <<fixedVars, context_description, invVars, posts, released>>

\* The while test holds: iteration += 1, build the payload, call the invoker.
LoopRound ==
    /\ pc = "loop"
    /\ LoopContinues(iteration)
    /\ iteration' = iteration + 1
    /\ invocations' = Append(invocations, PayloadActive(messages))
    /\ Invoke("active")
    /\ pc' = "active_call"
    /\ UNCHANGED <<messages, pending, dispatches, searches, varied, error, result>>
    /\ UNCHANGED <<cfgVars, posts, clients, released>>

\* The while test fails: raise ValueError("Maximum iterations reached ...").
LoopExceeded ==
    /\ pc = "loop"
    /\ ~LoopContinues(iteration)
    /\ Fail(ValueError("max_iterations_reached"))
    /\ released' = ScopeExit(released, TRUE)
    /\ UNCHANGED <<messages, iteration, invocations, dispatches, searches, varied, result>>
    /\ UNCHANGED <<cfgVars, invVars, posts, clients>>

----------------------------------------------------------------------------
(* Search capability: OpenAIService.web_search_tool *)

\* What the search API does with one request, when one is sent.
SearchOutcomes(budget) ==
    IF budget > 0 THEN {"ok", "no_results", "http_error", "exception"} ELSE {"ok"}

\* (variant: the key test is left out)
WebSearchToolNoKeyTest(o) ==
    CASE o = "ok" -> "search_result"
      [] o = "no_results" -> "error_no_results"
      [] o = "http_error" -> "error_search_api"
      [] OTHER -> "error_search_failed"

\* The JSON text web_search_tool returns; it never raises.
WebSearchTool(o) ==
    IF ~serper_key THEN "error_not_configured"
    ELSE CASE o = "ok" -> "search_result"
           [] o = "no_results" -> "error_no_results"
           [] o = "http_error" -> "error_search_api"
           [] OTHER -> "error_search_failed"

\* The "url" field of the JSON text: best_result.get("link", "") in a search
\* result, "" in each of the four error results.
SearchResultUrl(c) == IF c = "search_result" THEN "link" ELSE ""

\* The JSON texts that carry an "error" field.
SearchErrorResults ==
    {"error_not_configured", "error_no_results", "error_search_api", "error_search_failed"}

\* client.post to the search API happens only past the key test.
SearchPosts == IF serper_key THEN 1 ELSE 0

\* json.dumps({"error": "Unknown function"})
UnknownFunctionContent == "error_unknown_function"

\* if function_name == "web_search_tool"
IsRegistered(name) == name = "web_search_tool"

\* (variant: the function name is examined before the arguments are parsed)
DispatchToolCallNameFirst ==
    /\ pc = "dispatch"
    /\ pending # << >>
    /\ LET tc == Head(pending)
           rest == RestOfToolCalls(pending)
           after == IF rest = << >> THEN "loop" ELSE "dispatch"
       IN IF tc.arguments = "bad" /\ IsRegistered(tc.name)
            THEN \* json.loads(arguments): JSONDecodeError
                 /\ Fail(ValueError("json_decode_error"))
                 /\ released' = ScopeExit(released, TRUE)
                 /\ UNCHANGED <<messages, dispatches, searches, varied, clients>>
            ELSE IF IsRegistered(tc.name)
            THEN IF tc.arguments = "nonobj"
                   THEN \* function_args.get("query", ""): AttributeError
                        /\ Fail(ValueError("attribute_error"))
                        /\ released' = ScopeExit(released, TRUE)
                        /\ UNCHANGED <<messages, dispatches, searches, varied, clients>>
                   ELSE \E o \in SearchOutcomes(MaxVaried - varied) :
                        /\ messages' =
                              AppendTurn(messages, ToolResultTurn(tc.id, WebSearchTool(o)))
                        /\ dispatches' = dispatches + 1
                        /\ searches' = searches + SearchPosts
                        /\ clients' = clients + SearchPosts
                        /\ released' = IF serper_key
                                         THEN ScopeExit(released, o \in {"http_error", "exception"})
                                         ELSE released
                        /\ varied' = varied + (IF serper_key /\ o # "ok" THEN 1 ELSE 0)
                        /\ pending' = rest
                        /\ pc' = after
                        /\ UNCHANGED error
            ELSE /\ messages' =
                       AppendTurn(messages, ToolResultTurn(tc.id, UnknownFunctionContent))
                 /\ dispatches' = dispatches + 1
                 /\ pending' = rest
                 /\ pc' = after
                 /\ UNCHANGED <<searches, varied, error, clients, released>>
    /\ UNCHANGED <<iteration, invocations, result>>
    /\ UNCHANGED <<cfgVars, invVars, posts>>

\* One pass of `for tool_call in tool_calls`.
DispatchToolCall ==
    /\ pc = "dispatch"
    /\ pending # << >>
    /\ LET tc == Head(pending)
           rest == RestOfToolCalls(pending)
           after == IF rest = << >> THEN "loop" ELSE "dispatch"
       IN IF tc.arguments = "bad"
            THEN \* json.loads(arguments): JSONDecodeError
                 /\ Fail(ValueError("json_decode_error"))
                 /\ released' = ScopeExit(released, TRUE)
                 /\ UNCHANGED <<messages, dispatches, searches, varied, clients>>
            ELSE IF IsRegistered(tc.name)
            THEN IF tc.arguments = "nonobj"
                   THEN \* function_args.get("query", ""): AttributeError
                        /\ Fail(ValueError("attribute_error"))
                        /\ released' = ScopeExit(released, TRUE)
                        /\ UNCHANGED <<messages, dispatches, searches, varied, clients>>
                   ELSE \E o \in SearchOutcomes(MaxVaried - varied) :
                        /\ messages' =
                              AppendTurn(messages, ToolResultTurn(tc.id, WebSearchTool(o)))
                        /\ dispatches' = dispatches + 1
                        /\ searches' = searches + SearchPosts
                        /\ clients' = clients + SearchPosts
                        /\ released' = IF serper_key
                                         THEN ScopeExit(released, o \in {"http_error", "exception"})
                                         ELSE released
                        /\ varied' = varied + (IF serper_key /\ o # "ok" THEN 1 ELSE 0)
                        /\ pending' = rest
                        /\ pc' = after
                        /\ UNCHANGED error
            ELSE /\ messages' =
                       AppendTurn(messages, ToolResultTurn(tc.id, UnknownFunctionContent))
                 /\ dispatches' = dispatches + 1
                 /\ pending' = rest
                 /\ pc' = after
                 /\ UNCHANGED <<searches, varied, error, clients, released>>
    /\ UNCHANGED <<iteration, invocations, result>>
    /\ UNCHANGED <<cfgVars, invVars, posts>>

----------------------------------------------------------------------------
(* Two-stage pipelines: identify_component, then the planning stage *)

\* identify_component: the image is cleaned, then one client is opened for
\* one client.post, outside the invoker; HTTP errors are
\* logged and re-raised, an empty description raises ValueError.
IdentifyComponent ==
    /\ pc = "start"
    /\ mode \in {"two_stage_tools", "two_stage_plain"}
    /\ IF ~NormalizeImage(image_base64).ok
         THEN /\ pc' = "failed"
              /\ error' = InvalidImageData
              /\ UNCHANGED <<posts, clients, released, context_description, varied>>
         ELSE /\ posts' = posts \cup {[site |-> "vision", via |-> "direct"]}
              /\ clients' = clients + 1
              /\ \E o \in Outcomes :
                   IF IsSuccess(o)
                     THEN \E c \in VisionContents(MaxVaried - varied) :
                            IF c = << >>
                              THEN /\ pc' = "failed"
                                   /\ error' = ValueError("empty_vlm_response")
                                   /\ released' = ScopeExit(released, TRUE)
                                   /\ UNCHANGED <<context_description, varied>>
                              ELSE /\ pc' = "identified"
                                   /\ context_description' = c
                                   /\ varied' = varied + (IF Len(c) > 1 THEN 1 ELSE 0)
                                   /\ released' = ScopeExit(released, FALSE)
                                   /\ UNCHANGED error
                     ELSE /\ pc' = "failed"
                          /\ error' = ExceptionOf(o)
                          /\ released' = ScopeExit(released, TRUE)
                          /\ UNCHANGED <<context_description, varied>>
    /\ UNCHANGED <<messages, iteration, pending, invocations, dispatches,
                   searches, result>>
    /\ UNCHANGED <<fixedVars, planning_input, invVars>>

\* NemotronService.generate_wiring_plan (services.py): one client.post with the
\* strict schema, outside the invoker, then parse and validate.
PlainPlanningCall ==
    /\ pc = "identified"
    /\ mode = "two_stage_plain"
    /\ posts' = posts \cup {[site |-> "plain", via |-> "direct"]}
    /\ clients' = clients + 1
    /\ \E o \in Outcomes :
         IF IsSuccess(o)
           THEN \E b \in FinalBodies :
                  LET content == FinalContent(b) IN
                  IF b.shape = "empty_choices"
                    THEN /\ Fail(ValueError("index_error"))
                         /\ released' = ScopeExit(released, TRUE)
                         /\ UNCHANGED result
                    ELSE IF ExtractError(content) # NoError
                    THEN /\ Fail(ExtractError(content))
                         /\ released' = ScopeExit(released, TRUE)
                         /\ UNCHANGED result
                    ELSE /\ result' = ExtractSteps(content)
                         /\ pc' = "done"
                         /\ released' = ScopeExit(released, FALSE)
                         /\ UNCHANGED <<pending, error>>
           ELSE /\ Fail(ExceptionOf(o))
                /\ released' = ScopeExit(released, TRUE)
                /\ UNCHANGED result
    /\ planning_input' = Stage2Call(context_description, FALSE)
    /\ UNCHANGED <<messages, iteration, invocations, dispatches, searches, varied>>
    /\ UNCHANGED <<fixedVars, context_description, invVars>>

----------------------------------------------------------------------------
(* The pipeline run *)

Modes == {"combined", "two_stage_tools", "two_stage_plain"}

\* The HTTP status generate_plan (main.py) answers with when the coordinator
\* raises e: the except clauses in their order.
CallerStatus(e) ==
    CASE e.type = "HTTPStatusError" -> 503
      [] e.type = "TimeoutException" -> 504
      [] e.type = "ValueError" -> 400
      [] OTHER -> 500

\* A run is handed an image string that cleans to four data characters, or
\* one whose data stops inside a group of four.
PipelineImages == { PrefixPng \o << "A", "A", "A", "A" >>, << "A", "A" >> }

\* A pipeline run is checked under the default max_retries and under 0, the
\* setting with which the invoker makes no call; the invoker alone is checked
\* for every setting up to MaxRetriesCap.
Init ==
    /\ image_base64 \in PipelineImages
    /\ normalized = NotNormalized
    /\ final_text = NoText
    /\ clients = 0
    /\ released = 0
    /\ runs = << >>
    /\ requests = NoRequests
    /\ now = 0
    /\ traffic = NoTraffic
    /\ context_description = NoDescription
    /\ planning_input = NoPlanningInput
    /\ max_retries \in {0, default_max_retries}
    /\ serper_key \in BOOLEAN
    /\ mode \in Modes
    /\ pc = "start"
    /\ messages = << >>
    /\ iteration = 0
    /\ pending = << >>
    /\ inv_pc = "idle"
    /\ inv_site = "none"
    /\ attempt = 0
    /\ calls = 0
    /\ delays = << >>
    /\ fails = << >>
    /\ inv_value = NoneValue
    /\ inv_error = NoError
    /\ invocations = << >>
    /\ posts = {}
    /\ dispatches = 0
    /\ searches = 0
    /\ varied = 0
    /\ error = NoError
    /\ result = << >>

Next ==
    \/ BeginToolLoop
    \/ LoopRound
    \/ LoopExceeded
    \/ InvokerAttempt
    \/ InvokerWake
    \/ InvokerFallThrough
    \/ DispatchToolCall
    \/ IdentifyComponent
    \/ PlainPlanningCall

Spec == Init /\ [][Next]_vars

----------------------------------------------------------------------------
(* The two-stage plain run of services.py with the planning reply spelled    *)
(* out: NemotronService.orchestrate_full_pipeline, identify_component, then  *)
(* generate_wiring_plan.                                                     *)

\* n well-formed steps numbered 1..n.
NumberedSteps(n) == [i \in 1..n |-> FullStep(i)]

\* The list ss with its steps i and i + 1 exchanged.
Exchanged(ss, i) == [ss EXCEPT ![i] = ss[i + 1], ![i + 1] = ss[i]]

\* Step lists of a planning reply: numbered steps, the same with two
\* neighbours exchanged, the same with one field of one step left out.
PlainStepLists ==
    UNION { {NumberedSteps(n)}
              \cup {Exchanged(NumberedSteps(n), i) : i \in 1..(n - 1)}
              \cup {[NumberedSteps(n) EXCEPT ![i] = Without(@, f)] :
                        i \in 1..n, f \in StepFields}
            : n \in 0..MaxPlainSteps }

\* The content of the planning reply: no JSON, a JSON array of step objects,
\* or a JSON object that holds the array under "steps".
PlainTexts ==
    {[json |-> "invalid", steps |-> << >>]}
      \cup {[json |-> j, steps |-> ss] : j \in {"array", "object"}, ss \in PlainStepLists}

\* WiringStep of the module `schemas` that services.py imports: every field
\* of a step is required.
PlainMissingFields(o) == StepFields \ DOMAIN o

\* The first step object that this WiringStep rejects, 0 when there is none.
PlainFirstRejected(ss) ==
    LET bad == {i \in 1..Len(ss) : PlainMissingFields(ss[i]) # {}}
    IN IF bad = {} THEN 0 ELSE Min(bad)

\* (variant: the first element is passed over)
IteratedStepsSkipFirst(text) == IF text.steps = << >> THEN << >> ELSE Tail(text.steps)

\* wiring_steps = json.loads(content), a JSON array: what
\* `for step in wiring_steps` goes through.
IteratedSteps(text) == text.steps

\* WiringStep(**"steps"): iterating a JSON object yields its keys.
TypeError == [type |-> "TypeError", status |-> 0, text |-> "type_error", wrapped |-> FALSE]

\* generate_wiring_plan (services.py): one client of its own, one client.post
\* with the strict schema and no tools, then json.loads, WiringStep for each
\* element, model_dump.
GenerateWiringPlan ==
    /\ pc = "identified"
    /\ mode = "two_stage_plain"
    /\ final_text # NoText
    /\ posts' = posts \cup {[site |-> "plain", via |-> "direct"]}
    /\ clients' = clients + 1
    /\ \E o \in Outcomes :
         IF ~IsSuccess(o)
           THEN /\ Fail(ExceptionOf(o))
                /\ released' = ScopeExit(released, TRUE)
                /\ UNCHANGED result
           ELSE IF final_text.json # "array"
           THEN /\ Fail(IF final_text.json = "invalid" THEN JSONDecodeError ELSE TypeError)
                /\ released' = ScopeExit(released, TRUE)
                /\ UNCHANGED result
           ELSE LET ss == IteratedSteps(final_text)
                    k == PlainFirstRejected(ss)
                IN IF k # 0
                     THEN /\ Fail(ValidationError(CHOOSE f \in PlainMissingFields(ss[k]) : TRUE))
                          /\ released' = ScopeExit(released, TRUE)
                          /\ UNCHANGED result
                     ELSE /\ result' = ss
                          /\ pc' = "done"
                          /\ released' = ScopeExit(released, FALSE)
                          /\ UNCHANGED <<pending, error>>
    /\ planning_input' = Stage2Call(context_description, FALSE)
    /\ UNCHANGED <<messages, iteration, invocations, dispatches, searches, varied>>
    /\ UNCHANGED <<fixedVars, context_description, invVars>>

InitPlain ==
    /\ image_base64 \in PipelineImages
    /\ normalized = NotNormalized
    /\ final_text \in PlainTexts
    /\ clients = 0
    /\ released = 0
    /\ runs = << >>
    /\ requests = NoRequests
    /\ now = 0
    /\ traffic = NoTraffic
    /\ context_description = NoDescription
    /\ planning_input = NoPlanningInput
    /\ max_retries = default_max_retries
    /\ serper_key = FALSE
    /\ mode = "two_stage_plain"
    /\ pc = "start"
    /\ messages = << >>
    /\ iteration = 0
    /\ pending = << >>
    /\ inv_pc = "idle"
    /\ inv_site = "none"
    /\ attempt = 0
    /\ calls = 0
    /\ delays = << >>
    /\ fails = << >>
    /\ inv_value = NoneValue
    /\ inv_error = NoError
    /\ invocations = << >>
    /\ posts = {}
    /\ dispatches = 0
    /\ searches = 0
    /\ varied = 0
    /\ error = NoError
    /\ result = << >>

NextPlain == IdentifyComponent \/ GenerateWiringPlan

SpecPlain == InitPlain /\ [][NextPlain]_vars

----------------------------------------------------------------------------
(* WiringStep on JSON values: validation with pydantic's conversions, and    *)
(* model_dump.  A JSON value is its type and its text.                       *)

JsonInt(v) == [t |-> "int", v |-> v]
JsonStr(v) == [t |-> "str", v |-> v]
JsonBool(v) == [t |-> "bool", v |-> v]
JsonFloat(v) == [t |-> "float", v |-> v]
Unacceptable == [t |-> "none", v |-> ""]

JsonValues ==
    { JsonInt("0"), JsonInt("1"), JsonInt("7"), JsonFloat("1.0"), JsonFloat("1.5"),
      JsonStr(""), JsonStr("1"), JsonStr("text"), JsonStr("true"),
      JsonBool("true"), JsonBool("false") }

\* step_id: int.  An int is taken as it is; a bool, a float without fraction
\* and a string of digits are converted.
CoerceInt(x) ==
    CASE x.t = "int" -> x
      [] x.t = "bool" -> JsonInt(IF x.v = "true" THEN "1" ELSE "0")
      [] x.t = "float" /\ x.v = "1.0" -> JsonInt("1")
      [] x.t = "str" /\ x.v \in {"0", "1", "7"} -> JsonInt(x.v)
      [] OTHER -> Unacceptable

\* str fields: nothing but a string is taken.
CoerceStr(x) == IF x.t = "str" THEN x ELSE Unacceptable

\* requires_photo_verification: bool.  A bool is taken as it is; 0, 1 and
\* the strings that spell a truth value are converted.
CoerceBool(x) ==
    CASE x.t = "bool" -> x
      [] x.t = "int" /\ x.v \in {"0", "1"} -> JsonBool(IF x.v = "1" THEN "true" ELSE "false")
      [] x.t = "float" /\ x.v = "1.0" -> JsonBool("true")
      [] x.t = "str" /\ x.v \in {"1", "true"} -> JsonBool("true")
      [] x.t = "str" /\ x.v \in {"0", "false"} -> JsonBool("false")
      [] OTHER -> Unacceptable

\* The conversion of the field's declared type.
Coerce(f, x) ==
    CASE f = "step_id" -> CoerceInt(x)
      [] f = "requires_photo_verification" -> CoerceBool(x)
      [] OTHER -> CoerceStr(x)

\* Field(default=...)
JsonDefaults ==
    [f \in {"diagram_url", "requires_photo_verification"} |->
        IF f = "diagram_url" THEN JsonStr("") ELSE JsonBool("true")]

\* The value WiringStep(**o) gives field f.
FieldValue(o, f) ==
    IF f \in DOMAIN o THEN Coerce(f, o[f])
    ELSE IF f \in DOMAIN JsonDefaults THEN JsonDefaults[f]
    ELSE Unacceptable

\* WiringStep(**o) raises ValidationError
Rejects(o) == \E f \in StepFields : FieldValue(o, f) = Unacceptable

\* The fields of WiringStep(**o); keys of o that are no field are ignored.
WiringStepOf(o) == [f \in StepFields |-> FieldValue(o, f)]

\* (variant: the dump leaves out the fields whose value is falsy)
ModelDumpDropsFalsy(st) ==
    [f \in {g \in DOMAIN st : st[g].v \notin {"", "0", "false"}} |-> st[f]]

\* step.model_dump(): the dict of the fields' values
ModelDump(st) == [f \in DOMAIN st |-> st[f]]

\* A step object with every field present and of its declared type.
FullJsonStep ==
    [f \in StepFields |->
        CASE f = "step_id" -> JsonInt("1")
          [] f = "requires_photo_verification" -> JsonBool("false")
          [] f = "diagram_url" -> JsonStr("")
          [] OTHER -> JsonStr("text")]

\* Step objects handed to the validator: the full one with one field set to
\* any JSON value, with one field left out, with one key more.
JsonStepInputs ==
    {[FullJsonStep EXCEPT ![f] = x] : f \in StepFields, x \in JsonValues}
      \cup {Without(FullJsonStep, f) : f \in StepFields}
      \cup {[f \in StepFields \cup {"note"} |->
                IF f = "note" THEN JsonStr("text") ELSE FullJsonStep[f]]}

\* Validate a step object, dump it, validate the dump, dump again.
ValidateDumpValidate ==
    /\ pc = "round_trip"
    /\ LET o == final_text.steps[1] IN
       IF Rejects(o)
         THEN /\ pc' = "failed"
              /\ error' = ValidationError("first")
              /\ UNCHANGED result
         ELSE LET d == ModelDump(WiringStepOf(o)) IN
              IF Rejects(d)
                THEN /\ pc' = "failed"
                     /\ error' = ValidationError("second")
                     /\ result' = << d >>
                ELSE /\ pc' = "done"
                     /\ result' = << d, ModelDump(WiringStepOf(d)) >>
                     /\ UNCHANGED error
    /\ UNCHANGED <<messages, iteration, pending, invocations, dispatches, searches, varied>>
    /\ UNCHANGED <<cfgVars, invVars, posts, clients, released>>

InitRoundTrip ==
    /\ final_text \in {[json |-> "step", steps |-> << o >>] : o \in JsonStepInputs}
    /\ pc = "round_trip"
    /\ mode = "round_trip"
    /\ image_base64 = << >>
    /\ normalized = NotNormalized
    /\ runs = << >>
    /\ requests = NoRequests
    /\ now = 0
    /\ traffic = NoTraffic
    /\ context_description = NoDescription
    /\ planning_input = NoPlanningInput
    /\ clients = 0
    /\ released = 0
    /\ max_retries = default_max_retries
    /\ serper_key = FALSE
    /\ messages = << >>
    /\ iteration = 0
    /\ pending = << >>
    /\ inv_pc = "idle"
    /\ inv_site = "none"
    /\ attempt = 0
    /\ calls = 0
    /\ delays = << >>
    /\ fails = << >>
    /\ inv_value = NoneValue
    /\ inv_error = NoError
    /\ invocations = << >>
    /\ posts = {}
    /\ dispatches = 0
    /\ searches = 0
    /\ varied = 0
    /\ error = NoError
    /\ result = << >>

NextRoundTrip == ValidateDumpValidate

SpecRoundTrip == InitRoundTrip /\ [][NextRoundTrip]_vars

----------------------------------------------------------------------------
(* The plan validator of generate_plan: the models Step, ErrorState and     *)
(* TaskPlan.  The string fields and the error objects are well formed; a     *)
(* plan is its steps, the number of its common_errors and its total time.    *)

\* Literal["safe", "caution", "warning"]
SafetyLevels == {"safe", "caution", "warning"}

\* The step objects of a parsed plan.
PlanStepInputs ==
    [step_number : -1..2,
     safety_level : SafetyLevels \cup {"danger"},
     estimated_time_seconds : 0..1]

\* The parsed plans.
PlanInputs ==
    [plan_steps : UNION {[1..n -> PlanStepInputs] : n \in 0..MaxPlanItems},
     common_errors : 0..(max_common_errors + 1),
     total_estimated_time_seconds : 0..1]

\* Step: step_number is an int, safety_level one of the literals,
\* estimated_time_seconds an int with ge=1.
StepAccepted(st) ==
    /\ st.step_number \in Int
    /\ st.safety_level \in SafetyLevels
    /\ st.estimated_time_seconds >= 1

\* TaskPlan: plan_steps with min_length=1, common_errors with min_length=1
\* and max_length=3, total_estimated_time_seconds with ge=1.
TaskPlanAccepted(p) ==
    /\ Len(p.plan_steps) >= 1
    /\ \A i \in 1..Len(p.plan_steps) : StepAccepted(p.plan_steps[i])
    /\ p.common_errors >= 1
    /\ p.common_errors <= max_common_errors
    /\ p.total_estimated_time_seconds >= 1

\* validated_plan = TaskPlan(**plan_dict); return validated_plan.model_dump()
ValidatePlan ==
    /\ pc = "validate_plan"
    /\ IF TaskPlanAccepted(final_text.plan)
         THEN /\ pc' = "done"
              /\ result' = << final_text.plan >>
              /\ UNCHANGED <<pending, error>>
         ELSE /\ Fail(ValidationError("task_plan"))
              /\ UNCHANGED result
    /\ UNCHANGED <<messages, iteration, invocations, dispatches, searches, varied>>
    /\ UNCHANGED <<cfgVars, invVars, posts, clients, released>>

InitPlan ==
    /\ final_text \in {[json |-> "plan", plan |-> p] : p \in PlanInputs}
    /\ pc = "validate_plan"
    /\ mode = "task_plan"
    /\ image_base64 = << >>
    /\ normalized = NotNormalized
    /\ runs = << >>
    /\ requests = NoRequests
    /\ now = 0
    /\ traffic = NoTraffic
    /\ context_description = NoDescription
    /\ planning_input = NoPlanningInput
    /\ clients = 0
    /\ released = 0
    /\ max_retries = default_max_retries
    /\ serper_key = FALSE
    /\ messages = << >>
    /\ iteration = 0
    /\ pending = << >>
    /\ inv_pc = "idle"
    /\ inv_site = "none"
    /\ attempt = 0
    /\ calls = 0
    /\ delays = << >>
    /\ fails = << >>
    /\ inv_value = NoneValue
    /\ inv_error = NoError
    /\ invocations = << >>
    /\ posts = {}
    /\ dispatches = 0
    /\ searches = 0
    /\ varied = 0
    /\ error = NoError
    /\ result = << >>

NextPlan == ValidatePlan

SpecPlan == InitPlan /\ [][NextPlan]_vars

----------------------------------------------------------------------------
(* Two pipeline runs in flight on one service instance.  The instance holds  *)
(* settings, headers and URLs, assigned in __init__ and read afterwards; the *)
(* conversation, `iteration` and `attempt` are locals of a run's coroutine   *)
(* frames.  A run is suspended at `await client.post` and at                 *)
(* `await asyncio.sleep`; between two awaits nothing else runs.              *)

RunIds == {1, 2}

\* The frame of a run that has not started; `owners` notes for each turn of
\* the conversation the run it was produced for.
NewFrame ==
    [pc |-> "start", site |-> "none", messages |-> << >>, owners |-> << >>,
     iteration |-> 0, attempt |-> 0, pending |-> << >>, error |-> NoError,
     result |-> << >>]

\* (variant: time.sleep in place of asyncio.sleep holds the event loop)
MayStepBlockingSleep(rs, r) == \A q \in (DOMAIN rs) \ {r} : rs[q].pc # "sleep"

\* The event loop resumes a run as soon as what it awaits is ready, whatever
\* the other runs are waiting for.
MayStep(rs, r) == TRUE

\* (variant: the conversation is an attribute of the instance)
AppendShared(rs, r, t) ==
    [q \in DOMAIN rs |->
        [rs[q] EXCEPT !.messages = AppendTurn(@, t), !.owners = Append(@, r)]]

\* messages.append(t) on the local list of run r
AppendOwn(rs, r, t) ==
    [rs EXCEPT ![r].messages = AppendTurn(@, t), ![r].owners = Append(@, r)]

\* The replies to a tools-enabled call in these runs: no tool call, or one
\* call of web_search_tool.
TwoReplyKinds == { << >>, << [name |-> "web_search_tool", arguments |-> "obj"] >> }

\* The texts of the replies to a strict-schema call in these runs.
TwoFinalContents == {"plan", "bad_json"}

otherVars ==
    <<image_base64, normalized, final_text, requests, now, traffic, context_description,
      planning_input, clients, released,
      max_retries, serper_key, mode, pc, messages, iteration, pending, inv_pc, inv_site, attempt, calls,
      delays, fails, inv_value, inv_error, invocations, posts, dispatches,
      searches, varied, error, result>>

\* The run enters generate_wiring_plan_combined: messages = [system, user].
RunBegin(r) ==
    /\ runs[r].pc = "start"
    /\ MayStep(runs, r)
    /\ LET t == InitialConversation("combined")
           a == AppendOwn(AppendOwn(runs, r, t[1]), r, t[2])
       IN runs' = [a EXCEPT ![r].pc = "loop"]
    /\ UNCHANGED otherVars

\* The while test holds: iteration += 1 and the invoker is entered.
RunLoopRound(r) ==
    /\ runs[r].pc = "loop"
    /\ MayStep(runs, r)
    /\ LoopContinues(runs[r].iteration)
    /\ runs' = [runs EXCEPT ![r].iteration = @ + 1, ![r].site = "active",
                            ![r].attempt = 0, ![r].pc = "try"]
    /\ UNCHANGED otherVars

\* The while test fails.
RunLoopExceeded(r) ==
    /\ runs[r].pc = "loop"
    /\ MayStep(runs, r)
    /\ ~LoopContinues(runs[r].iteration)
    /\ runs' = [runs EXCEPT ![r].pc = "failed",
                            ![r].error = SurfacedError(ValueError("max_iterations_reached"))]
    /\ UNCHANGED otherVars

\* await client.post(...): the request is out, the run is suspended.
RunPost(r) ==
    /\ runs[r].pc = "try"
    /\ MayStep(runs, r)
    /\ runs[r].attempt < max_retries
    /\ runs' = [runs EXCEPT ![r].pc = "awaiting"]
    /\ UNCHANGED otherVars

\* range(max_retries) is used up: the invoker returns None and the caller's
\* None.get raises.
RunFallThrough(r) ==
    /\ runs[r].pc = "try"
    /\ MayStep(runs, r)
    /\ runs[r].attempt >= max_retries
    /\ runs' = [runs EXCEPT ![r].pc = "failed",
                            ![r].error = SurfacedError(ValueError("attribute_error"))]
    /\ UNCHANGED otherVars

\* The response is in: the invoker returns, raises or goes to sleep, and a
\* returned body is taken apart by the loop up to its next await.
RunResponse(r) ==
    /\ runs[r].pc = "awaiting"
    /\ MayStep(runs, r)
    /\ \E o \in Outcomes :
         LET res == AttemptResult(o, runs[r].attempt) IN
         CASE res = "sleep" -> runs' = [runs EXCEPT ![r].pc = "sleep"]
           [] res = "raise" ->
                runs' = [runs EXCEPT ![r].pc = "failed",
                                     ![r].error = SurfacedError(ExceptionOf(o))]
           [] OTHER ->
                IF runs[r].site = "active"
                  THEN \E ks \in TwoReplyKinds :
                         LET msg == AssistantMessage(ks, runs[r].messages)
                             a == AppendOwn(runs, r, msg)
                         IN IF NoToolCalls(msg)
                              THEN runs' = [AppendOwn(a, r, InstructionTurn) EXCEPT
                                              ![r].site = "final", ![r].attempt = 0,
                                              ![r].pc = "try"]
                              ELSE runs' = [a EXCEPT ![r].pending = msg.tool_calls,
                                                     ![r].pc = "dispatch"]
                  ELSE \E c \in TwoFinalContents :
                         IF ExtractError(c) # NoError
                           THEN runs' = [runs EXCEPT ![r].pc = "failed",
                                                     ![r].error = SurfacedError(ExtractError(c))]
                           ELSE runs' = [runs EXCEPT
                                           ![r].pc = "done",
                                           ![r].result =
                                              [i \in 1..Len(ExtractSteps(c)) |->
                                                 [owner |-> r, step |-> ExtractSteps(c)[i]]]]
    /\ UNCHANGED otherVars

\* asyncio.sleep(delay) is over.
RunWake(r) ==
    /\ runs[r].pc = "sleep"
    /\ MayStep(runs, r)
    /\ runs' = [runs EXCEPT ![r].attempt = @ + 1, ![r].pc = "try"]
    /\ UNCHANGED otherVars

\* One pass of `for tool_call in tool_calls`.
RunDispatch(r) ==
    /\ runs[r].pc = "dispatch"
    /\ MayStep(runs, r)
    /\ LET tc == Head(runs[r].pending)
           rest == RestOfToolCalls(runs[r].pending)
           a == AppendOwn(runs, r, ToolResultTurn(tc.id, WebSearchTool("ok")))
       IN runs' = [a EXCEPT ![r].pending = rest,
                            ![r].pc = IF rest = << >> THEN "loop" ELSE "dispatch"]
    /\ UNCHANGED otherVars

\* Any step of run r.
RunStep(r) ==
    \/ RunBegin(r)
    \/ RunLoopRound(r)
    \/ RunLoopExceeded(r)
    \/ RunPost(r)
    \/ RunFallThrough(r)
    \/ RunResponse(r)
    \/ RunWake(r)
    \/ RunDispatch(r)

InitTwo ==
    /\ runs = [r \in RunIds |-> NewFrame]
    /\ requests = NoRequests
    /\ now = 0
    /\ traffic = NoTraffic
    /\ context_description = NoDescription
    /\ planning_input = NoPlanningInput
    /\ image_base64 = << >>
    /\ normalized = NotNormalized
    /\ final_text = NoText
    /\ clients = 0
    /\ released = 0
    /\ max_retries \in {0, default_max_retries}
    /\ serper_key = FALSE
    /\ mode = "two_runs"
    /\ pc = "harness"
    /\ messages = << >>
    /\ iteration = 0
    /\ pending = << >>
    /\ inv_pc = "idle"
    /\ inv_site = "none"
    /\ attempt = 0
    /\ calls = 0
    /\ delays = << >>
    /\ fails = << >>
    /\ inv_value = NoneValue
    /\ inv_error = NoError
    /\ invocations = << >>
    /\ posts = {}
    /\ dispatches = 0
    /\ searches = 0
    /\ varied = 0
    /\ error = NoError
    /\ result = << >>

NextTwo ==
    \/ \E r \in RunIds : RunBegin(r)
    \/ \E r \in RunIds : RunLoopRound(r)
    \/ \E r \in RunIds : RunLoopExceeded(r)
    \/ \E r \in RunIds : RunPost(r)
    \/ \E r \in RunIds : RunFallThrough(r)
    \/ \E r \in RunIds : RunResponse(r)
    \/ \E r \in RunIds : RunWake(r)
    \/ \E r \in RunIds : RunDispatch(r)

SpecTwo == InitTwo /\ [][NextTwo]_vars

----------------------------------------------------------------------------
(* The rate limiter of the API (main.py): RateLimiter.is_allowed and the  *)
(* part of RequestMiddleware.dispatch around it.  Time is read in whole   *)
(* seconds; a path is the sequence of its segments.                       *)

\* req_time > minute_ago, with minute_ago = now - 60
FreshInclusive(req_time, t) == req_time >= t - window_seconds
Fresh(req_time, t) == req_time > t - window_seconds

\* "Clean old requests": the list comprehension of lines 60-63
CleanOld(record, t) ==
    LET Keep(req_time) == Fresh(req_time, t)
    IN SelectSeq(record, Keep)

\* len(self.requests[client_ip]) < self.requests_per_minute
UnderLimitInclusive(record) == Len(record) <= requests_per_minute
UnderLimit(record) == Len(record) < requests_per_minute

\* the value is_allowed returns for a client whose record is `record`
IsAllowed(record, t) == UnderLimit(CleanOld(record, t))

\* the record is_allowed leaves behind
AfterIsAllowed(record, t) ==
    IF IsAllowed(record, t) THEN Append(CleanOld(record, t), t)
                            ELSE CleanOld(record, t)

\* request.client.host if request.client else "unknown"
Hosts == {"10.0.0.1", "none"}
ClientIp(host) == IF host = "none" THEN "unknown" ELSE host

\* request.url.path.endswith('/health')
Paths == {<<"health">>, <<"api", "v1", "plan", "generate">>}
EndsWithHealth(path) == Len(path) > 0 /\ path[Len(path)] = "health"

\* RequestMiddleware.dispatch for one request; too_large is the outcome of
\* the content-length test of line 102.
Dispatch(host, path, too_large) ==
    /\ mode = "rate_limit"
    /\ traffic.calls < MaxRateCalls
    /\ LET client_ip == ClientIp(host)
           limited == ~EndsWithHealth(path)
           allowed == IsAllowed(requests[client_ip], now)
           answer ==
               IF limited /\ ~allowed
               THEN [ip |-> client_ip, path |-> path,
                     status |-> HTTP_429_TOO_MANY_REQUESTS, call_next |-> FALSE]
               ELSE IF too_large
               THEN [ip |-> client_ip, path |-> path,
                     status |-> HTTP_413_REQUEST_ENTITY_TOO_LARGE, call_next |-> FALSE]
               ELSE [ip |-> client_ip, path |-> path, status |-> 0, call_next |-> TRUE]
       IN /\ requests' = IF limited
                         THEN [requests EXCEPT ![client_ip] = AfterIsAllowed(@, now)]
                         ELSE requests
          /\ traffic' = [traffic EXCEPT
                           !.admitted[client_ip] =
                               IF limited /\ allowed THEN Append(@, now) ELSE @,
                           !.last = answer,
                           !.calls = @ + 1]
    /\ UNCHANGED <<now, max_retries, serper_key, mode, image_base64, normalized,
                   final_text, runs, invVars, runVars, posts, clients, released,
                   context_description, planning_input>>

\* Time passes between two requests: a second, or as long as it takes the
\* oldest request of a client that has just sent 30 to become 59 or 60 seconds old.
TickSteps == {1, window_seconds - requests_per_minute,
              window_seconds - requests_per_minute + 1}
Tick(d) ==
    /\ mode = "rate_limit"
    /\ traffic.ticks < MaxTicks
    /\ now' = now + d
    /\ traffic' = [traffic EXCEPT !.ticks = @ + 1]
    /\ UNCHANGED <<requests, max_retries, serper_key, mode, image_base64, normalized,
                   final_text, runs, invVars, runVars, posts, clients, released,
                   context_description, planning_input>>

\* A client that has sent k requests, one a second, the last one just now.
Recent(k, t) == [i \in 1..k |-> t - k + i]
Warmups == {requests_per_minute - 1, requests_per_minute}

InitRate ==
    /\ now = requests_per_minute
    /\ \E k \in Warmups :
          /\ requests = [ip \in ClientIps |->
                           IF ip = "unknown" THEN << >> ELSE Recent(k, now)]
          /\ traffic = [NoTraffic EXCEPT !.admitted = requests]
    /\ runs = << >>
    /\ context_description = NoDescription
    /\ planning_input = NoPlanningInput
    /\ image_base64 = << >>
    /\ normalized = NotNormalized
    /\ final_text = NoText
    /\ clients = 0
    /\ released = 0
    /\ max_retries = default_max_retries
    /\ serper_key = FALSE
    /\ mode = "rate_limit"
    /\ pc = "harness"
    /\ messages = << >>
    /\ iteration = 0
    /\ pending = << >>
    /\ inv_pc = "idle"
    /\ inv_site = "none"
    /\ attempt = 0
    /\ calls = 0
    /\ delays = << >>
    /\ fails = << >>
    /\ inv_value = NoneValue
    /\ inv_error = NoError
    /\ invocations = << >>
    /\ posts = {}
    /\ dispatches = 0
    /\ searches = 0
    /\ varied = 0
    /\ error = NoError
    /\ result = << >>

NextRate ==
    \/ \E host \in Hosts, path \in Paths, too_large \in BOOLEAN :
          Dispatch(host, path, too_large)
    \/ \E d \in TickSteps : Tick(d)

SpecRate == InitRate /\ [][NextRate]_vars

----------------------------------------------------------------------------
(* Properties of the retrying invoker (checked under SpecInvoker) *)

OnlyClasses(f, S) == \A i \in 1..Len(f) : f[i] \in S

StrictlyIncreasing(d) == \A i \in 1..(Len(d) - 1) : d[i] < d[i + 1]

\* C1: when the endpoint has answered 5xx exactly k < max_retries times and
\* nothing else, the invoker has not given up; and when the next answer is a
\* success it returns that response's body after exactly k+1 calls, having
\* slept k delays, each longer than the one before.
C1_ServerErrorsThenSuccess ==
    LET k == Len(fails) IN
    (OnlyClasses(fails, {"server"}) /\ k < max_retries) =>
        /\ inv_pc # "raised"
        /\ inv_pc = "returned" =>
              /\ inv_value = ResponseJson
              /\ calls = k + 1
              /\ Len(delays) = k
              /\ StrictlyIncreasing(delays)

C1_Witness ==
    /\ inv_site = "harness"
    /\ inv_pc = "returned"
    /\ fails = << "server", "server" >>
    /\ calls = 3
    /\ delays = << 1, 2 >>

\* C2: a 4xx answer is the last thing the invocation sees: it is raised to the
\* caller as the status error it is, no call follows it and no delay is slept
\* for it (so a 4xx on the first attempt means one call and no delay).
C2_ClientErrorNotRetried ==
    \A i \in 1..Len(fails) :
        fails[i] = "client" =>
            /\ i = Len(fails)
            /\ inv_pc = "raised"
            /\ inv_error.type = "HTTPStatusError"
            /\ inv_error.status >= 400 /\ inv_error.status < 500
            /\ calls = i
            /\ Len(delays) = i - 1

C2_Witness ==
    /\ inv_site = "harness"
    /\ inv_pc = "raised"
    /\ fails = << "timeout", "client" >>
    /\ calls = 2
    /\ delays = << 1 >>

\* C3: while only 5xx answers and timeouts have been seen, at most max_retries
\* calls are made, the i-th delay slept (counting from 0) is 1 * 2^i, every
\* failure but the max_retries-th is followed by a delay, and the
\* max_retries-th failure is raised to the caller with no delay and no value.
C3_BoundedBackoff ==
    OnlyClasses(fails, {"server", "timeout"}) =>
        /\ calls <= max_retries
        /\ \A i \in 1..Len(delays) : delays[i] = 1 * (2 ^ (i - 1))
        /\ Len(fails) < max_retries => Len(delays) = Len(fails)
        /\ (max_retries > 0 /\ Len(fails) = max_retries) =>
              /\ inv_pc = "raised"
              /\ Len(delays) = max_retries - 1
              /\ inv_value = NoneValue
              /\ inv_error.type =
                    (IF fails[Len(fails)] = "timeout"
                       THEN "TimeoutException" ELSE "HTTPStatusError")

C3_Witness ==
    /\ inv_site = "harness"
    /\ max_retries = 3
    /\ inv_pc = "raised"
    /\ fails = << "server", "timeout", "server" >>
    /\ calls = 3
    /\ delays = << 1, 2 >>

----------------------------------------------------------------------------
(* Properties of a pipeline run (checked under Spec) *)

ActiveCount ==
    Cardinality({i \in 1..Len(invocations) : invocations[i].site = "active"})

FinalCount ==
    Cardinality({i \in 1..Len(invocations) : invocations[i].site = "final"})

FinalIssued == FinalCount > 0

\* Positions of the model's replies in a conversation ({} has no role).
ReplyTurns(msgs) ==
    {i \in 3..Len(msgs) : msgs[i].role \in {"assistant", "none"}}

\* Positions of the tool-result turns that answer request id.
ToolTurnsFor(msgs, id) ==
    {i \in 1..Len(msgs) : msgs[i].role = "tool" /\ msgs[i].tool_call_id = id}

ToolTurns(msgs) == {i \in 1..Len(msgs) : msgs[i].role = "tool"}

\* Every tool-call request has a tool-result turn with its id after it.
Resolved(msgs) ==
    \A i \in 1..Len(msgs) :
        \A j \in 1..Len(msgs[i].tool_calls) :
            \E k \in (i + 1)..Len(msgs) :
                /\ msgs[k].role = "tool"
                /\ msgs[k].tool_call_id = msgs[i].tool_calls[j].id

\* C4: every outbound model call of a run (vision, tool-loop round, final
\* strict-schema call, plain planning call) is posted by the retrying invoker.
C4_AllCallsThroughInvoker ==
    \A p \in posts : p.via = "invoker"

\* What C5 says of one state of a run.
DispatchedOncePerRequest ==
    LET asked == CountRequests(messages)
        answers == [id \in 1..asked |-> Cardinality(ToolTurnsFor(messages, id))]
        replies == ReplyTurns(messages)
    IN
    /\ iteration = ActiveCount
    /\ dispatches = Cardinality(ToolTurns(messages))
    /\ \A id \in 1..asked : answers[id] <= 1
    /\ (pc = "loop" \/ FinalIssued) =>
          /\ dispatches = asked
          /\ \A id \in 1..asked : answers[id] = 1
    /\ (\E i \in replies : NoToolCalls(messages[i])) <=> FinalIssued
    /\ FinalIssued =>
          /\ Cardinality(replies) = iteration
          /\ ActiveCount = iteration
          /\ iteration <= max_iterations
          /\ \A i \in replies :
                NoToolCalls(messages[i]) <=> i = Len(messages) - 1

\* C5: one dispatch and one tool-result turn per tool-call request; the round
\* counter equals the number of tools-enabled invocations; and the final call
\* is issued exactly on the round r whose reply holds no tool call, after r
\* tools-enabled invocations, the r-1 earlier replies all holding tool calls
\* and every one of their requests answered by exactly one tool turn.
C5_OneDispatchPerRequest == []DispatchedOncePerRequest

C5_Witness ==
    /\ pc = "final_call"
    /\ iteration = 3
    /\ dispatches = 2
    /\ CountRequests(messages) = 2
    /\ Cardinality(ToolTurns(messages)) = 2

\* C6: there are never more than max_iterations tools-enabled invocations; a
\* run whose max_iterations replies all held tool calls, all dispatched, ends
\* failed with the maximum-iterations error; and a run that ends with that
\* error made exactly max_iterations tools-enabled invocations, every reply
\* holding a tool call, and issued no final call.
C6_LoopExceeded ==
    /\ ActiveCount <= max_iterations
    /\ (/\ pc = "failed"
        /\ pending = << >>
        /\ Cardinality(ReplyTurns(messages)) = max_iterations
        /\ \A i \in ReplyTurns(messages) : ~NoToolCalls(messages[i]))
          => error.text = "max_iterations_reached"
    /\ error.text = "max_iterations_reached" =>
          /\ pc = "failed"
          /\ error.type = "ValueError"
          /\ iteration = max_iterations
          /\ ActiveCount = max_iterations
          /\ FinalCount = 0
          /\ Cardinality(ReplyTurns(messages)) = max_iterations
          /\ \A i \in ReplyTurns(messages) : ~NoToolCalls(messages[i])
          /\ result = << >>

C6_Witness ==
    /\ pc = "failed"
    /\ error.text = "max_iterations_reached"
    /\ ActiveCount = 10
    /\ dispatches >= 10

\* C7: a tool-call request naming an unknown function never fails the loop:
\* no run fails at such a request, and once the for loop is past it the request
\* has a tool-result turn with its id and the unknown-function error payload.
C7_UnknownFunctionNeverFails ==
    /\ (pc = "failed" /\ pending # << >>) => IsRegistered(Head(pending).name)
    /\ \A i \in 1..Len(messages) :
          \A j \in 1..Len(messages[i].tool_calls) :
              LET tc == messages[i].tool_calls[j] IN
              (~IsRegistered(tc.name) /\ pc \in {"loop", "active_call"}) =>
                  \E k \in ToolTurnsFor(messages, tc.id) :
                      k > i /\ messages[k].content = UnknownFunctionContent

\* C8: a tools-enabled invocation carries the tool catalog and no
\* response_format; the final invocation carries response_format and no tool
\* catalog, is the only one of its kind and the last invocation of the run,
\* and the conversation it sends ends with the single instruction turn, put
\* right after the reply that held no tool call.
C8_ModeSwitch ==
    /\ \A i \in 1..Len(invocations) :
          LET inv == invocations[i] IN
          /\ ~(inv.tools /\ inv.response_format)
          /\ inv.site = "active" => (inv.tools /\ ~inv.response_format)
          /\ inv.site = "final" =>
                /\ inv.response_format /\ ~inv.tools
                /\ i = Len(invocations)
                /\ inv.nmsgs = Len(messages)
                /\ messages[inv.nmsgs] = InstructionTurn
                /\ (inv.nmsgs - 1) \in ReplyTurns(messages)
                /\ NoToolCalls(messages[inv.nmsgs - 1])
    /\ FinalCount <= 1
    /\ Cardinality({k \in 1..Len(messages) : messages[k] = InstructionTurn}) = FinalCount
    /\ (pc = "final_call" \/ (pc = "done" /\ mode # "two_stage_plain")) => FinalCount = 1

C8_Witness ==
    /\ pc = "done"
    /\ ActiveCount = 2
    /\ FinalCount = 1
    /\ invocations[3].response_format
    /\ messages[Len(messages)] = InstructionTurn

\* C9: the conversation sent at every tools-enabled invocation has no
\* unresolved tool call; and once the final call is issued the conversation
\* holds exactly one assistant turn without tool calls and no unresolved
\* tool call.
C9_OneTerminalTurnAllResolved ==
    /\ pc = "active_call" => Resolved(messages)
    /\ FinalIssued =>
          /\ Resolved(messages)
          /\ Cardinality({i \in 1..Len(messages) :
                             /\ messages[i].role = "assistant"
                             /\ NoToolCalls(messages[i])}) = 1

\* C10: the conversation only grows by appending (each step leaves the old
\* conversation a prefix of the new one); its first two turns stay the initial
\* system and user turns; and every tool-result turn stands after the
\* assistant reply that requested it, with only tool-result turns in between.
C10_AppendOnly ==
    /\ [](/\ (messages # << >> \/ pc \in {"loop", "active_call", "dispatch", "final_call"}) =>
               /\ Len(messages) >= 2
               /\ SubSeq(messages, 1, 2) = InitialConversation(mode)
          /\ \A k \in ToolTurns(messages) :
               \E i \in 1..(k - 1) :
                   /\ messages[i].role = "assistant"
                   /\ \E j \in 1..Len(messages[i].tool_calls) :
                         messages[i].tool_calls[j].id = messages[k].tool_call_id
                   /\ \A m \in (i + 1)..(k - 1) : messages[m].role = "tool")
    /\ [][IsPrefix(messages, messages')]_vars

C10_Witness ==
    /\ pc = "loop"
    /\ Len(messages) >= 7
    /\ messages[3].role = "assistant"
    /\ Len(messages[3].tool_calls) = 2
    /\ messages[4].role = "tool"
    /\ messages[5].role = "tool"

----------------------------------------------------------------------------
(* Properties of the search capability (checked under Spec) *)

\* What C11 says of one state of a run.
SearchDegradesGracefully ==
    /\ ~serper_key => searches = 0
    /\ searches <= dispatches
    /\ (pc = "failed" /\ pending # << >>) =>
          ~(IsRegistered(Head(pending).name) /\ Head(pending).arguments = "obj")
    /\ \A i \in 1..Len(messages) :
          \A j \in 1..Len(messages[i].tool_calls) :
              LET tc == messages[i].tool_calls[j] IN
              IsRegistered(tc.name) =>
                  LET turns == ToolTurnsFor(messages, tc.id) IN
                  /\ \A k \in turns :
                        LET c == messages[k].content IN
                        /\ c \in SearchErrorResults \cup {"search_result"}
                        /\ c \in SearchErrorResults => SearchResultUrl(c) = ""
                        /\ ~serper_key => c = "error_not_configured"
                  /\ (tc.arguments = "obj" /\ pc \in {"loop", "active_call", "final_call", "done"})
                        => turns # {}

\* C11: dispatching web_search_tool never fails the run: no run fails at a
\* request whose arguments gave the search its query; the tool-result turn of
\* every such request is the search result or an explicit error result with an
\* empty url; without a configured key it is the not-configured error and no
\* search call has been posted.
C11_SearchDegradesGracefully == []SearchDegradesGracefully

C11_Witness ==
    /\ ~serper_key
    /\ pc = "done"
    /\ searches = 0
    /\ dispatches >= 1
    /\ \E k \in ToolTurns(messages) : messages[k].content = "error_not_configured"

----------------------------------------------------------------------------
(* Properties of the image normalizer (checked under SpecNormalize) *)

\* The format a leading data:image/<fmt>;base64, prefix declares.
DeclaredFormat(s) ==
    IF StartsWith(s, PrefixJpeg) THEN "jpeg"
    ELSE IF StartsWith(s, PrefixPng) THEN "png" ELSE "none"

\* What follows the prefix, or the whole string when there is none.
PayloadOf(s) ==
    IF StartsWith(s, PrefixJpeg) THEN SubSeq(s, Len(PrefixJpeg) + 1, Len(s))
    ELSE IF StartsWith(s, PrefixPng) THEN SubSeq(s, Len(PrefixPng) + 1, Len(s))
    ELSE s

\* The payload without the injected whitespace, newline and tab characters.
PayloadSansInjected(s) ==
    SelectSeq(PayloadOf(s), LAMBDA c : c \notin { " ", "\n", "\r", "\t" })

\* A non-empty base64 text: groups of four alphabet characters, the last
\* group closed by at most two "=".
IsValidBase64(t) ==
    /\ Len(t) > 0
    /\ Len(t) % 4 = 0
    /\ \A i \in 1..Len(t) :
          \/ t[i] \in Base64Alphabet
          \/ /\ t[i] = "="
             /\ i >= Len(t) - 1
             /\ t[Len(t)] = "="

\* C12: for a valid base64 payload, with or without a declared prefix and with
\* whitespace injected, the normalizer succeeds, its payload is the input's
\* without the injected characters, and its format is the declared one, or
\* jpeg when none is declared.
C12_NormalizeValidImage ==
    (normalized.done /\ IsValidBase64(PayloadSansInjected(image_base64))) =>
        /\ normalized.ok
        /\ normalized.payload = PayloadSansInjected(image_base64)
        /\ \A i \in 1..Len(normalized.payload) :
              normalized.payload[i] \notin { " ", "\n", "\r", "\t" }
        /\ normalized.nbytes > 0
        /\ normalized.format =
              (IF DeclaredFormat(image_base64) = "none"
                 THEN "jpeg" ELSE DeclaredFormat(image_base64))

\* C13: for an input whose payload is empty or is not valid base64 the
\* normalizer fails instead of producing an output.
C13_NormalizeRejectsInvalid ==
    (normalized.done /\ ~IsValidBase64(PayloadSansInjected(image_base64))) =>
        ~normalized.ok

----------------------------------------------------------------------------
(* Properties of a pipeline run, continued (checked under Spec) *)

\* The test decode of the cleaned payload raises.
TestDecodeFails(s) == B64Decode(PayloadSansInjected(s)) < 0

\* C14: a run whose image fails the normalization makes no outbound call of
\* any kind, acquires no client and never enters the invoker; it can only end
\* failed, with the invalid-image ValueError as raised; and that error leaves
\* no run that has acquired a client.
C14_InvalidInputBeforeRemoteWork ==
    /\ TestDecodeFails(image_base64) =>
          /\ posts = {}
          /\ searches = 0
          /\ clients = 0
          /\ invocations = << >>
          /\ messages = << >>
          /\ inv_pc = "idle" /\ calls = 0 /\ delays = << >>
          /\ pc \in {"start", "failed"}
          /\ pc = "failed" => error = InvalidImageData
    /\ error = InvalidImageData =>
          /\ pc = "failed"
          /\ TestDecodeFails(image_base64)
          /\ clients = 0 /\ posts = {}

C14_Witness ==
    /\ mode = "combined"
    /\ image_base64 = << "A", "A" >>
    /\ pc = "failed"
    /\ error = InvalidImageData
    /\ clients = 0
    /\ posts = {}

----------------------------------------------------------------------------
(* Properties of the extraction (checked under SpecExtract) *)

\* The step fields the validator is to insist on.
InsistedStepFields == StepFields \ {"component"}

\* The steps of the final answer that lack one of these fields.
LackingSteps(ss) == {i \in 1..Len(ss) : InsistedStepFields \ DOMAIN ss[i] # {}}

\* C15: a step object that lacks one of the step fields is rejected with an
\* error naming the missing field; a final answer whose steps all have every
\* field is accepted and the returned steps have exactly the input's values.
C15_ValidatorRequiresEveryField ==
    (pc \in {"done", "failed"} /\ final_text.json = "object") =>
        LET ss == final_text.steps IN
        /\ LackingSteps(ss) # {} =>
              /\ pc = "failed"
              /\ error.text \in InsistedStepFields \ DOMAIN ss[Min(LackingSteps(ss))]
        /\ (\A i \in 1..Len(ss) : DOMAIN ss[i] = StepFields) =>
              /\ pc = "done"
              /\ result = ss

\* C16: a successful extraction returns a plan of exactly the fixed length.
C16_FixedPlanLength ==
    pc = "done" => Len(result) = plan_length

\* C17: in a returned plan of N steps the step_id values are pairwise
\* distinct and are exactly 1..N.
C17_StepIdsDense ==
    pc = "done" =>
        /\ \A i \in 1..Len(result) : result[i]["step_id"] >= 1
        /\ \A i, j \in 1..Len(result) :
              result[i]["step_id"] = result[j]["step_id"] => i = j
        /\ {result[i]["step_id"] : i \in 1..Len(result)} = 1..Len(result)

\* C18: the returned list has as many steps as the final answer, and its i-th
\* step is the validated form of the answer's i-th step, carrying each value
\* the answer gave for it.
C18_StepOrderPreserved ==
    pc = "done" =>
        LET ss == StepsOf(final_text) IN
        /\ Len(result) = Len(ss)
        /\ \A i \in 1..Len(ss) :
              /\ result[i] = ValidateStep(ss[i])
              /\ \A f \in DOMAIN ss[i] : result[i][f] = ss[i][f]

C18_Witness ==
    /\ pc = "done"
    /\ Len(final_text.steps) = 2
    /\ Len(result) = 2
    /\ result[1]["step_id"] = 2
    /\ result[2]["step_id"] = 1

----------------------------------------------------------------------------
(* Properties of the failures of a pipeline run (checked under Spec) *)

FailureClasses ==
    { "ToolLoopExceeded", "MalformedModelOutput", "SchemaValidationFailed",
      "InvalidInput", "UpstreamClientError", "UpstreamServerError" }

\* The class in which the failure of a failed run arose.
OriginClass ==
    CASE error = InvalidImageData -> "InvalidInput"
      [] error.text = "max_iterations_reached" -> "ToolLoopExceeded"
      [] error.text = "json_decode_error" /\ pending = << >> -> "MalformedModelOutput"
      [] error.text = "validation_error" -> "SchemaValidationFailed"
      [] error.type = "HTTPStatusError" /\ IsClientError(error.status) -> "UpstreamClientError"
      [] error.type \in {"HTTPStatusError", "TimeoutException"} -> "UpstreamServerError"
      [] OTHER -> "Other"

\* The exception a failure of class k leaves the coordinator with.
SurfacedAs(k) ==
    CASE k = "InvalidInput" -> InvalidImageData
      [] k = "ToolLoopExceeded" -> SurfacedError(ValueError("max_iterations_reached"))
      [] k = "MalformedModelOutput" -> SurfacedError(ExtractError("bad_json"))
      [] k = "SchemaValidationFailed" -> SurfacedError(ExtractError("plan_bad_step"))
      [] k = "UpstreamClientError" -> SurfacedError(HTTPStatusError(400))
      [] OTHER -> SurfacedError(HTTPStatusError(500))

\* What the caller of the coordinator can tell an exception by.
KindSeen(e) == << e.type, IsClientError(e.status) >>

\* C19: a failed run's failure can be told from a failure of every other
\* class, both by the exception the coordinator's caller gets and by the
\* status the endpoint derives from it.
C19_FailureClassesNotMerged ==
    (pc = "failed" /\ OriginClass \in FailureClasses) =>
        \A k \in FailureClasses \ {OriginClass} :
            /\ KindSeen(SurfacedAs(k)) # KindSeen(error)
            /\ CallerStatus(SurfacedAs(k)) # CallerStatus(error)

\* C20: a run succeeds only if every reply of the model carried a message and
\* the final answer carried a non-empty list of steps.
C20_NoErrorSwallowed ==
    pc = "done" =>
        /\ result # << >>
        /\ \A i \in ReplyTurns(messages) : messages[i].role = "assistant"

----------------------------------------------------------------------------
(* Properties of the extraction, continued (checked under SpecExtract) *)

\* The steps of a list that lack a field WiringStep declares without default.
SchemaViolations(ss) == {i \in 1..Len(ss) : \E f \in RequiredStepFields : f \notin DOMAIN ss[i]}

----------------------------------------------------------------------------
(* Properties of a pipeline run, continued (checked under Spec) *)

\* The texts of the exceptions of the three fatal classes: the loop cap, a
\* text that is no JSON, a step the validator rejects.
FatalTexts == {"max_iterations_reached", "json_decode_error", "validation_error"}

\* C22: once a run has met ToolLoopExceeded, MalformedModelOutput or
\* SchemaValidationFailed it has failed, no invoker frame is left to make a
\* call, and no step of the run issues a model call or a search afterwards.
C22_FatalNeverRetried ==
    /\ [](error.text \in FatalTexts => (pc = "failed" /\ inv_pc = "idle"))
    /\ [][error.text \in FatalTexts =>
            /\ invocations' = invocations
            /\ posts' = posts
            /\ searches' = searches
            /\ calls' = calls
            /\ iteration' = iteration]_vars

C22_Witness ==
    /\ pc = "failed"
    /\ error.text = "validation_error"
    /\ ActiveCount >= 2
    /\ FinalCount = 1
    /\ searches = 1

\* Clients acquired and not yet closed.
OpenClients == clients - released

\* C23: a run that has ended, by a return or by any failure, has closed every
\* client it acquired; the identification, the plain planning call and a
\* search leave none of theirs open; and wherever the invoker is about to post
\* for the tool loop, the loop's client is open.
C23_ClientScoped ==
    /\ pc \in {"done", "failed"} => OpenClients = 0
    /\ pc \in {"start", "identified"} => OpenClients = 0
    /\ pc \in {"loop", "active_call", "dispatch", "final_call"} => OpenClients = 1
    /\ (inv_pc \in {"try", "sleep"} /\ inv_site \in {"active", "final"}) => OpenClients = 1

C23_Witness ==
    /\ pc = "failed"
    /\ error.text = "max_iterations_reached"
    /\ searches >= 1
    /\ clients >= 2
    /\ released = clients

----------------------------------------------------------------------------
(* Properties of the two-stage plain run (checked under SpecPlain) *)

VisionPost == [site |-> "vision", via |-> "direct"]
PlainPost == [site |-> "plain", via |-> "direct"]

\* The planning reply is a JSON array of 5 well-formed steps numbered 1..5.
FiveWellFormedSteps ==
    /\ final_text.json = "array"
    /\ Len(final_text.steps) = 5
    /\ \A i \in 1..5 : DOMAIN final_text.steps[i] = StepFields
    /\ \A i \in 1..5 : final_text.steps[i]["step_id"] = i

----------------------------------------------------------------------------
(* Properties of a pipeline run in combined mode (checked under Spec) *)

\* C25: a combined-mode run makes no vision-identification call; every call it
\* makes goes out for a tools-enabled round or for the final strict-schema
\* call; the tools-enabled rounds come first, one for each iteration, the
\* first of them sending the two opening turns with the image and the goal in
\* the user turn; at most one final call follows them.
C25_CombinedSingleCall ==
    mode = "combined" =>
        /\ \A p \in posts : p.via = "invoker" /\ p.site \in {"active", "final"}
        /\ ActiveCount = iteration
        /\ FinalCount <= 1
        /\ \A i \in 1..Len(invocations) :
              /\ invocations[i].site \in {"active", "final"}
              /\ invocations[i].site = "final" => i = Len(invocations)
        /\ invocations # << >> =>
              /\ invocations[1].site = "active"
              /\ invocations[1].nmsgs = 2
              /\ messages[2] = Turn("user", "user_prompt_with_image")

C25_Witness ==
    /\ mode = "combined"
    /\ pc = "done"
    /\ ActiveCount = 2
    /\ FinalCount = 1
    /\ posts = {[site |-> "active", via |-> "invoker"], [site |-> "final", via |-> "invoker"]}

----------------------------------------------------------------------------
(* Properties of two interleaved runs (checked under SpecTwo) *)

\* C26: every turn of a run's conversation and every step of its result was
\* produced for that run; and a step that changes a run's conversation,
\* iteration counter or attempt counter is a step of that run.
C26_RequestIsolation ==
    /\ [](\A r \in RunIds :
            /\ Len(runs[r].owners) = Len(runs[r].messages)
            /\ \A i \in 1..Len(runs[r].owners) : runs[r].owners[i] = r
            /\ \A i \in 1..Len(runs[r].result) : runs[r].result[i].owner = r)
    /\ [][\A q \in RunIds :
            (\/ runs'[q].messages # runs[q].messages
             \/ runs'[q].iteration # runs[q].iteration
             \/ runs'[q].attempt # runs[q].attempt) => RunStep(q)]_vars

C26_Witness ==
    /\ runs[1].pc = "dispatch"
    /\ runs[1].iteration = 2
    /\ runs[2].pc = "sleep"
    /\ runs[2].attempt = 1
    /\ Len(runs[2].messages) = 2
    /\ Len(runs[1].messages) = 5

\* A run waits: in a retry delay, or for a remote response.
Waiting(f) == f.pc \in {"sleep", "awaiting"}

\* A run is in flight: it has neither returned nor failed.
InFlight(f) == f.pc \notin {"done", "failed"}

\* C27: while one run waits in a retry delay or for a response, a step of
\* every other run in flight is enabled.
C27_DelayBlocksNoOther ==
    \A r \in RunIds : \A q \in RunIds \ {r} :
        (Waiting(runs[r]) /\ InFlight(runs[q])) => ENABLED RunStep(q)

\* One run still sleeps before its first retry while the other has completed.
C27_Witness ==
    /\ runs[1].pc = "sleep"
    /\ runs[1].iteration = 1
    /\ runs[1].attempt = 0
    /\ runs[2].pc = "done"
    /\ runs[2].iteration >= 2

----------------------------------------------------------------------------
(* Properties of the step validator (checked under SpecRoundTrip) *)

\* C28: when the validator accepts a step object, the dump of the validated
\* step is accepted too, validating and dumping it gives the same step field
\* for field, and doing so once more changes nothing.
C28_RoundTrip ==
    LET o == final_text.steps[1] IN
    (pc \in {"done", "failed"} /\ ~(\E f \in StepFields : FieldValue(o, f) = Unacceptable)) =>
        /\ pc = "done"
        /\ DOMAIN result[1] = StepFields
        /\ DOMAIN result[2] = StepFields
        /\ \A f \in StepFields : result[2][f] = result[1][f]
        /\ ModelDump(WiringStepOf(result[2])) = result[2]

\* The step object had step_id as a string of digits, which was converted.
C28_Witness ==
    /\ pc = "done"
    /\ final_text.steps[1]["step_id"] = JsonStr("1")
    /\ result[1]["step_id"] = JsonInt("1")
    /\ result[2] = result[1]

----------------------------------------------------------------------------
(* Properties of the plan validator (checked under SpecPlan) *)

\* What PLAN_SCHEMA declares of a plan.
DeclaredByPlanSchema(p) ==
    /\ Len(p.plan_steps) >= 1
    /\ \A i \in 1..Len(p.plan_steps) :
          /\ p.plan_steps[i].safety_level \in {"safe", "caution", "warning"}
          /\ p.plan_steps[i].step_number >= 1
          /\ p.plan_steps[i].estimated_time_seconds >= 1
    /\ p.common_errors \in 1..3
    /\ p.total_estimated_time_seconds >= 1

\* C29: TaskPlan accepts a plan exactly when the plan is within the sets and
\* bounds PLAN_SCHEMA declares.
C29_PlanValidatorMatchesSchema ==
    /\ pc = "done" => DeclaredByPlanSchema(final_text.plan)
    /\ pc = "failed" => ~DeclaredByPlanSchema(final_text.plan)

----------------------------------------------------------------------------
(* Properties of the endpoint's status mapping (checked under Spec) *)

\* C30: a failed run is answered 400 only when the request's own input was
\* invalid, 503 whenever an upstream call failed, and 500 only for what is
\* neither.
C30_StatusMapping ==
    pc = "failed" =>
        /\ CallerStatus(error) = 400 => error = InvalidImageData
        /\ IsHTTPError(error) => CallerStatus(error) = 503
        /\ CallerStatus(error) = 500 => (~IsHTTPError(error) /\ error # InvalidImageData)

----------------------------------------------------------------------------
(* Properties of the rate limiter (checked under SpecRate) *)

\* The step is one call of RequestMiddleware.dispatch.
DispatchStep == traffic'.calls = traffic.calls + 1

\* How many requests of the client the limiter has let through at a time
\* after lo and not after hi.
AdmittedWithin(ip, lo, hi) ==
    Cardinality({i \in DOMAIN traffic.admitted[ip] :
                    lo < traffic.admitted[ip][i] /\ traffic.admitted[ip][i] <= hi})

\* Of the windows of 60 seconds that hold the same requests, one has its young
\* end at the youngest of them: the windows that end at an admitted request
\* stand for all.
C31_Window ==
    \A ip \in ClientIps : \A i \in DOMAIN traffic.admitted[ip] :
        LET w == traffic.admitted[ip][i]
        IN AdmittedWithin(ip, w - window_seconds, w) <= requests_per_minute

C31_Step ==
    DispatchStep =>
        LET ip == traffic'.last.ip
            health == EndsWithHealth(traffic'.last.path)
        IN /\ (~health /\ AdmittedWithin(ip, now - window_seconds, now)
                             >= requests_per_minute)
                 => /\ traffic'.last.status = HTTP_429_TOO_MANY_REQUESTS
                    /\ ~traffic'.last.call_next
           /\ (~health /\ traffic'.last.call_next)
                 => traffic'.admitted[ip] = Append(traffic.admitted[ip], now)
           /\ health
                 => /\ traffic'.last.status # HTTP_429_TOO_MANY_REQUESTS
                    /\ requests' = requests
                    /\ traffic'.admitted = traffic.admitted

\* C31: for every client and every window of 60 seconds (open at its old end)
\* at most 30 requests to non-health paths pass the middleware; a request that
\* arrives while 30 admitted requests of its client are younger than 60 seconds
\* is answered 429 and call_next is not run; a request to a path ending in
\* /health is never answered 429 and never counted.
C31_RateLimit == []C31_Window /\ [][C31_Step]_vars

\* A client is turned away after time has passed, and the limiter has let
\* through 30 of its requests in the last 60 seconds.
C31_Witness ==
    /\ traffic.last.status = HTTP_429_TOO_MANY_REQUESTS
    /\ traffic.ticks > 0
    /\ AdmittedWithin(traffic.last.ip, now - window_seconds, now) = requests_per_minute

\* C38: a rejected request leaves its client's record as it was; an admitted
\* one leaves the timestamps younger than 60 seconds followed by its own; no
\* call changes another client's record; and after a call every timestamp of
\* the caller's record is younger than 60 seconds and there are at most 30.
C38_Bookkeeping ==
    [][(DispatchStep /\ ~EndsWithHealth(traffic'.last.path)) =>
          LET ip == traffic'.last.ip
              Younger(req_time) == now - req_time < window_seconds
          IN /\ traffic'.last.status = HTTP_429_TOO_MANY_REQUESTS
                   => requests'[ip] = requests[ip]
             /\ traffic'.last.status # HTTP_429_TOO_MANY_REQUESTS
                   => requests'[ip] = Append(SelectSeq(requests[ip], Younger), now)
             /\ \A other \in ClientIps \ {ip} : requests'[other] = requests[other]
             /\ \A i \in DOMAIN requests'[ip] : Younger(requests'[ip][i])
             /\ Len(requests'[ip]) <= requests_per_minute]_vars

\* A request is admitted once timestamps of its client have grown old, and the
\* next one of the same client is rejected with the record full.
C38_Witness ==
    /\ traffic.last.status = HTTP_429_TOO_MANY_REQUESTS
    /\ traffic.calls >= 2
    /\ Len(requests[traffic.last.ip]) = requests_per_minute
    /\ requests[traffic.last.ip][1] > 1
    /\ requests[traffic.last.ip][requests_per_minute] > requests_per_minute

----------------------------------------------------------------------------
(* The boundary of the iteration cap (checked under Spec) *)

\* Position of the model's latest reply in the conversation (0 if none),
\* looked for from position i downwards.
RECURSIVE LastReplyFrom(_, _)
LastReplyFrom(msgs, i) ==
    IF i < 3 THEN 0
    ELSE IF msgs[i].role \in {"assistant", "none"} THEN i
    ELSE LastReplyFrom(msgs, i - 1)

LastReply(msgs) == LastReplyFrom(msgs, Len(msgs))

\* What C32 says of one state of a run.
CapBoundary ==
    /\ (/\ iteration = max_iterations
        /\ Cardinality(ReplyTurns(messages)) = max_iterations
        /\ NoToolCalls(messages[LastReply(messages)]))
          => /\ FinalCount = 1
             /\ invocations[Len(invocations)].site = "final"
             /\ ~invocations[Len(invocations)].tools
             /\ invocations[Len(invocations)].response_format
             /\ error.text # "max_iterations_reached"
    /\ error.text = "max_iterations_reached" =>
          LET last == LastReply(messages)
              asked == messages[last].tool_calls
          IN /\ Cardinality(ReplyTurns(messages)) = max_iterations
             /\ asked # << >>
             /\ Len(messages) = last + Len(asked)
             /\ \A j \in 1..Len(asked) :
                   /\ messages[last + j].role = "tool"
                   /\ messages[last + j].tool_call_id = asked[j].id

\* C32: when the reply of round max_iterations is the first one without a
\* tool-call request, the strict-schema call is issued and the run does not
\* fail with the maximum-iterations error; that error is raised only after
\* round max_iterations brought a tool-call request, and then every request of
\* that round has been dispatched and its tool-result turn appended.
C32_CapBoundary == []CapBoundary

\* Nine rounds asked for tools, the tenth did not: the final call is out.
C32_Witness ==
    /\ pc = "final_call"
    /\ iteration = max_iterations
    /\ dispatches >= max_iterations - 1
    /\ NoToolCalls(messages[LastReply(messages)])
    /\ \A i \in ReplyTurns(messages) \ {LastReply(messages)} : ~NoToolCalls(messages[i])

----------------------------------------------------------------------------
(* Termination of the tool-loop planning operation (checked under Spec) *)

\* Steps one invoker call can still take: a post and a wake per attempt left.
InvokerSteps ==
    CASE inv_pc = "try" -> 2 * (max_retries - attempt) + 1
      [] inv_pc = "sleep" -> 2 * (max_retries - attempt)
      [] OTHER -> 0

\* Steps a round can take: entering it, its invoker call, its for loop.
RoundSteps == 1 + (2 * max_retries + 2) + (MaxToolCallsPerReply + 1)

\* Steps left once the while test is reached with `iteration` rounds done.
LoopSteps(it) == (max_iterations - it) * RoundSteps + (2 * max_retries + 2) + 2

\* An upper bound of the steps the run can still take.
StepsLeft ==
    CASE pc = "start" -> LoopSteps(0) + 2
      [] pc = "identified" -> LoopSteps(0) + 1
      [] pc = "loop" -> LoopSteps(iteration)
      [] pc = "active_call" -> InvokerSteps + (MaxToolCallsPerReply + 1) + LoopSteps(iteration)
      [] pc = "dispatch" -> Len(pending) + LoopSteps(iteration)
      [] pc = "final_call" -> InvokerSteps + 1
      [] OTHER -> 0

Ended == pc \in {"done", "failed"}

C33_Bounded ==
    /\ Len(invocations) <= max_iterations + 1
    /\ ActiveCount <= max_iterations
    /\ FinalCount <= 1
    /\ calls <= max_retries
    /\ StepsLeft >= 0
    /\ Ended <=> StepsLeft = 0
    /\ ~Ended => ENABLED Next
    /\ pc = "done" => error = NoError
    /\ pc = "failed" => error # NoError /\ result = << >>

C33_Step ==
    /\ StepsLeft' < StepsLeft
    /\ Len(invocations') = Len(invocations) + 1
          => attempt' = 0 /\ calls' = 0 /\ inv_pc' = "try"
    /\ calls' # calls
          => \/ calls' = calls + 1 /\ attempt' = attempt /\ calls' = attempt + 1
             \/ calls' = 0

\* C33: the run ends after a bounded number of steps whatever the model and the
\* search service answer: every step lowers a bound of the steps left, and a
\* run that has not ended can take a step; it makes at most max_iterations + 1
\* invoker calls, each starting with attempt 0 and posting at most max_retries
\* times; and it ends with a returned step list or with an error.
C33_Terminates == []C33_Bounded /\ [][C33_Step]_vars

\* The run with the most invoker calls: nine rounds with tool calls, a tenth
\* without, and the strict-schema call, which returned a plan.
C33_Witness ==
    /\ pc = "done"
    /\ Len(invocations) = max_iterations + 1
    /\ iteration = max_iterations
    /\ max_retries = default_max_retries
    /\ result # << >>

----------------------------------------------------------------------------
(* Totality of the retrying invoker (checked under SpecInvoker) *)

\* C34: whatever max_retries is, a call of the invoker that has ended has
\* posted at least once, and it has either returned a response body or raised
\* an error: it never returns without a body.
C34_InvokerTotal ==
    /\ inv_pc \in {"returned", "raised"} => calls >= 1
    /\ inv_pc = "returned" => inv_value # NoneValue /\ inv_error = NoError
    /\ inv_pc = "raised" => inv_error # NoError /\ inv_value = NoneValue

----------------------------------------------------------------------------
(* The three failure classes of the retrying invoker (checked under SpecInvoker) *)

\* What the claim says is done with a failure of each class.
Treatment(class) ==
    CASE class = "client" -> "fatal"
      [] class \in {"server", "timeout", "other"} -> "retryable"
      [] OTHER -> "surfaced"

ErrorTypeOf(class) ==
    CASE class = "timeout" -> "TimeoutException"
      [] class = "transport" -> "ConnectError"
      [] OTHER -> "HTTPStatusError"

\* C35: every failure of an attempt is treated in one of three ways.  A 4xx
\* status and a transport failure that is neither a status nor a timeout end
\* the call at once, whatever the attempt: the error is raised as it is, no
\* delay is slept for it and no call follows.  Any other error status and a
\* timeout are followed by a delay and a further attempt while attempts are
\* left, and raised at the last one.
C35_ThreeClasses ==
    \A i \in 1..Len(fails) :
        /\ Treatment(fails[i]) \in {"fatal", "surfaced"} =>
              /\ i = Len(fails)
              /\ inv_pc = "raised"
              /\ inv_error.type = ErrorTypeOf(fails[i])
              /\ ~inv_error.wrapped
              /\ calls = i
              /\ Len(delays) = i - 1
        /\ Treatment(fails[i]) = "retryable" =>
              IF i < max_retries
                THEN /\ Len(delays) >= i
                     /\ delays[i] = BackoffDelay(i - 1)
                     /\ i = Len(fails) => inv_pc \in {"sleep", "try", "returned"}
                ELSE /\ i = Len(fails)
                     /\ inv_pc = "raised"
                     /\ inv_error.type = ErrorTypeOf(fails[i])
                     /\ Len(delays) = i - 1

\* A connection error on the second attempt of four: raised at once.
C35_Witness ==
    /\ inv_site = "harness"
    /\ max_retries = 4
    /\ inv_pc = "raised"
    /\ fails = << "server", "transport" >>
    /\ inv_error = ConnectError
    /\ calls = 2
    /\ delays = << 1 >>

----------------------------------------------------------------------------
(* Tool-call requests whose arguments are no JSON (checked under Spec) *)

\* What C36 says of one state of a run.
UnparsableArgumentsFail ==
    /\ \A i \in 1..Len(messages) :
          \A j \in 1..Len(messages[i].tool_calls) :
              messages[i].tool_calls[j].arguments = "bad" =>
                  /\ pc \in {"dispatch", "failed"}
                  /\ i = LastReply(messages)
                  /\ \A k \in j..Len(messages[i].tool_calls) :
                        ToolTurnsFor(messages, messages[i].tool_calls[k].id) = {}
                  /\ Len(invocations) = Cardinality(ReplyTurns(messages))
                  /\ FinalCount = 0
                  /\ inv_pc = "idle"
    /\ (pc = "failed" /\ pending # << >> /\ Head(pending).arguments = "bad")
          => /\ error.type = "ValueError"
             /\ error.text = "json_decode_error"
             /\ result = << >>

\* C36: a tool-call request whose arguments text is not valid JSON fails the
\* run, whatever function it names: the run never gets past it to a further
\* round or to the final call, the request and the requests after it in the
\* same reply get no tool-result turn, no further invocation is made, and the
\* run that failed at it carries the JSON decoding error.
C36_UnparsableArguments == []UnparsableArgumentsFail

\* The reply asked for a search and then for an unknown function with
\* arguments that are no JSON: the search was answered, the run failed at the
\* second request.
C36_Witness ==
    /\ pc = "failed"
    /\ Len(pending) = 1
    /\ Head(pending).name = "other_tool"
    /\ Head(pending).arguments = "bad"
    /\ Len(messages[LastReply(messages)].tool_calls) = 2
    /\ Cardinality(ToolTurns(messages)) = dispatches
    /\ dispatches >= 1
    /\ error.text = "json_decode_error"

----------------------------------------------------------------------------
(* The order of the two stages (checked under Spec) *)

TwoStage == mode \in {"two_stage_tools", "two_stage_plain"}

\* Something of stage 2 has happened: a call of the invoker, the plain
\* planning post, a conversation, a dispatched tool call or a search.
PlanningTouched ==
    \/ invocations # << >>
    \/ [site |-> "plain", via |-> "direct"] \in posts
    \/ messages # << >>
    \/ dispatches > 0
    \/ searches > 0
    \/ result # << >>

\* What C37 says of one state of a run.
StageOrder ==
    TwoStage =>
        /\ planning_input.called =>
              /\ context_description # NoDescription
              /\ planning_input.given = context_description
              /\ [site |-> "vision", via |-> "direct"] \in posts
        /\ PlanningTouched => planning_input.called
        /\ context_description = NoDescription =>
              /\ pc \in {"start", "failed"}
              /\ ~planning_input.called
              /\ ~PlanningTouched
              /\ pc = "failed" => error # NoError
        /\ pc \in {"identified", "done"} => context_description # NoDescription

\* C37: in a two-stage run stage 2 is called only after the vision call has
\* returned a description that is not empty, and it is called with exactly
\* that description; nothing of stage 2 happens before that call, and a run
\* whose vision call failed or returned nothing has failed without it.
C37_StageOrder == []StageOrder

\* The vision model's sentence ended with a line break; stage 2 was called
\* with it as it was and the run returned its plan.
C37_Witness ==
    /\ mode = "two_stage_tools"
    /\ pc = "done"
    /\ context_description = << "description", "\n" >>
    /\ planning_input.given = << "description", "\n" >>
    /\ planning_input.in_prompt = << "description" >>
    /\ result # << >>

====
